---------------------------- MODULE Spec2Model ----------------------------
(***************************************************************************)
(* Model of the darwinium genetic-algorithm engine: the executor's         *)
(* generation pipeline (RefreshFitness, PerformSelection, PerformCrossover,*)
(* PerformMutation, Loop), the errgroup worker pool the two concurrent      *)
(* stages run on, and the reference operators (SimpleSumFitnessEvaluator,   *)
(* SimpleSwapMutator, TournamentSelector, SinglePointCrossover).            *)
(*                                                                         *)
(* Indices are 1-based here and 0-based in the Go source, except the       *)
(* generation index gen and the random draws of the mutator, which keep    *)
(* the source's 0-based values.                                            *)
(***************************************************************************)
EXTENDS Integers, Sequences, FiniteSets

VARIABLES
    population,      \* e.population: [isNil, indsNil, Individuals]
    numWorkers,      \* e.numWorkers
    mutationRate,    \* SimpleSwapMutator.mutationRate, in units of 1/RateScale
    tournamentSize,  \* TournamentSelector.TournamentSize
    numElites,       \* TournamentSelector.NumElites
    generations,     \* the generations argument of Loop
    ctxErr,          \* ctx.Err() of the caller's context ("" while not cancelled)
    pc,              \* position of the control thread in Loop ("direct": a stage called on its own)
    gen,             \* Loop's generation index i
    stage,           \* the stage method being executed ("none" between calls)
    sp,              \* position inside the stage: "entry", "run", "ret"
    gctxErr,         \* gCtx.Err() of the errgroup's derived context
    gErr,            \* g.err of the errgroup (<<>> is nil)
    sem,             \* tokens held in the errgroup's semaphore
    next,            \* index the dispatch loop hands to g.Go next
    unit,            \* per individual: the goroutine running its unit
    stageErr,        \* error returned by the stage (<<>> is nil)
    retPop,          \* population returned by PerformSelection / PerformCrossover / Select
    loopErr,         \* error returned by Loop
    loopRet,         \* population returned by Loop
    trace,           \* history: stages called, in order
    calls,           \* history: invocations of each operator
    failLog,         \* history: unit failures in the order they were recorded
    entryPop,        \* history: e.population when the running stage was entered
    entryCtx,        \* history: ctx.Err() when the running stage was entered
    initSize,        \* history: size of the population the executor was constructed with
    lastBest,        \* history: the individuals of highest fitness in the evaluation Loop looked at last
    opIn,            \* arguments of an operator called on its own (<<>> otherwise)
    opOut            \* what that call, or PerformCrossover, returned, drew and allocated (<<>> before it)

vars == <<population, numWorkers, mutationRate, tournamentSize, numElites,
          generations, ctxErr, pc, gen, stage, sp, gctxErr, gErr, sem, next,
          unit, stageErr, retPop, loopErr, loopRet, trace, calls, failLog,
          entryPop, entryCtx, initSize, lastBest, opIn, opOut>>

\* what a run never changes
cfgVars == <<numWorkers, mutationRate, tournamentSize, numElites, generations, initSize>>
groupVars == <<gctxErr, gErr, sem, next, unit>>
loopVars == <<pc, gen, loopErr, loopRet, lastBest>>
opVars == <<opIn, opOut>>

-----------------------------------------------------------------------------
(* Bounds of the model *)

MaxPopSize == 3
MaxGenerations == 2

\* mutation rates and gate draws are multiples of 1/RateScale
RateScale == 2

\* chromosomes handed to Crossover and Mutate directly: at most MaxChromLen
\* genes, each in 1..MaxGene
MaxChromLen == 3

MaxGene == 2

\* the worker count NewGeneticAlgorithmExecutor sets when none is given
DefaultWorkers == 1

\* the sentinel numWorkers value that leaves the errgroup without a limit
Unbounded == -1

-----------------------------------------------------------------------------
(* Errors: a wrap chain, outermost first; <<>> is nil. The gen field of an  *)
(* error is <<i>> when its message carries the generation index i, and <<>> *)
(* when it carries none.                                                    *)

Nil == <<>>

Err(kind, msg) == [kind |-> kind, msg |-> msg, gen |-> <<>>]

Wrap(kind, msg, wrapped) == <<Err(kind, msg)>> \o wrapped

ErrPopulationEmpty == <<Err("ErrPopulationEmpty", "population is empty")>>

\* the error bar.Add(1) returns when the progress bar cannot be written
ErrProgressBar == <<Err("progressbar", "write failed")>>

ContextErr(e) == <<Err(e, e)>>

NewInvalidChromosomeError(msg, wrapped) == Wrap("InvalidChromosomeError", msg, wrapped)

NewFitnessEvaluationError(msg, wrapped) == Wrap("FitnessEvaluationError", msg, wrapped)

NewMutationError(msg, wrapped) == Wrap("MutationError", msg, wrapped)

NewSelectionError(msg, wrapped) == Wrap("SelectionError", msg, wrapped)

NewCrossoverError(msg, wrapped) == Wrap("CrossoverError", msg, wrapped)

\* fmt.Errorf("<msg> at generation %d: %w", i, err)
ErrorfGen(msg, i, err) == <<[kind |-> "wrapError", msg |-> msg, gen |-> <<i>>]>> \o err

\* fmt.Errorf("<msg>: %w", err)
Errorf(msg, err) == <<[kind |-> "wrapError", msg |-> msg, gen |-> <<>>]>> \o err

\* errors.Is / errors.As: some error of the chain is of the kind
ErrorsIs(err, kind) == \E i \in 1..Len(err) : err[i].kind = kind

\* the chain inner is what remains of err after unwrapping some wrappers
Unwraps(err, inner) ==
    /\ Len(inner) <= Len(err)
    /\ SubSeq(err, Len(err) - Len(inner) + 1, Len(err)) = inner

-----------------------------------------------------------------------------
(* Data model *)

Solution(chromosome, fitness) == [Chromosome |-> chromosome, Fitness |-> fitness]

\* Solution.DeepCopy: a chromosome of its own with the same genes, same fitness
DeepCopy(s) == Solution(s.Chromosome, s.Fitness)

NilPopulation == [isNil |-> TRUE, indsNil |-> TRUE, Individuals |-> <<>>]

NilIndividuals == [isNil |-> FALSE, indsNil |-> TRUE, Individuals |-> <<>>]

CreateEmptyPopulation == [isNil |-> FALSE, indsNil |-> FALSE, Individuals |-> <<>>]

CreatePopulation(individuals) ==
    [isNil |-> FALSE, indsNil |-> FALSE, Individuals |-> individuals]

\* variant: the check without its length test
PopulationEmptyNilOnly(p) == p.isNil \/ p.indsNil

\* e.population == nil || e.population.Individuals == nil || len(...) == 0
PopulationEmpty(p) == p.isNil \/ p.indsNil \/ Len(p.Individuals) = 0

\* variant: the comparison of BestSolution turned around
RECURSIVE BestFromLowest(_, _, _)
BestFromLowest(inds, i, best) ==
    IF i > Len(inds) THEN best
    ELSE BestFromLowest(inds, i + 1, IF inds[i].Fitness < best.Fitness THEN inds[i] ELSE best)

\* Population.BestSolution: the first individual of maximal fitness
RECURSIVE BestFrom(_, _, _)
BestFrom(inds, i, best) ==
    IF i > Len(inds) THEN best
    ELSE BestFrom(inds, i + 1, IF inds[i].Fitness > best.Fitness THEN inds[i] ELSE best)

BestSolution(p) ==
    IF p.isNil \/ Len(p.Individuals) = 0
    THEN [sol |-> Solution(<<>>, 0), err |-> ErrPopulationEmpty]
    ELSE [sol |-> BestFrom(p.Individuals, 2, p.Individuals[1]), err |-> Nil]

BestFitness(p) ==
    LET b == BestSolution(p)
    IN  IF b.err # Nil THEN [fitness |-> 0, err |-> b.err]
        ELSE [fitness |-> b.sol.Fitness, err |-> Nil]

\* the individuals whose fitness is the one BestFitness returns
Fittest(p) ==
    {p.Individuals[i] : i \in {j \in DOMAIN p.Individuals :
                                  p.Individuals[j].Fitness = BestFitness(p).fitness}}

-----------------------------------------------------------------------------
(* SimpleSumFitnessEvaluator *)

\* utils.ConvertToFloat64 on an int gene: float64(n), which is exact for the
\* small integers used as genes here
ConvertToFloat64(v) == [value |-> v, err |-> Nil]

\* variant: Evaluate without the cancellation check ahead of its loop
EvaluateEntryNoCtx(chromosome, ctx) ==
    IF Len(chromosome) = 0
    THEN [returned |-> TRUE, fitness |-> 0,
          err |-> NewFitnessEvaluationError("cannot calculate fitness",
                      NewInvalidChromosomeError("empty chromosome found", Nil))]
    ELSE [returned |-> FALSE, fitness |-> 0, err |-> Nil]

\* variant: an empty chromosome evaluates to fitness 0 without error
EvaluateEntryEmptyZero(chromosome, ctx) ==
    IF ctx # ""
    THEN [returned |-> TRUE, fitness |-> 0,
          err |-> NewFitnessEvaluationError("context cancelled", ContextErr(ctx))]
    ELSE IF Len(chromosome) = 0
    THEN [returned |-> TRUE, fitness |-> 0, err |-> Nil]
    ELSE [returned |-> FALSE, fitness |-> 0, err |-> Nil]

\* Evaluate up to its loop: the cancellation check and the length check
EvaluateEntry(chromosome, ctx) ==
    IF ctx # ""
    THEN [returned |-> TRUE, fitness |-> 0,
          err |-> NewFitnessEvaluationError("context cancelled", ContextErr(ctx))]
    ELSE IF Len(chromosome) = 0
    THEN [returned |-> TRUE, fitness |-> 0,
          err |-> NewFitnessEvaluationError("cannot calculate fitness",
                      NewInvalidChromosomeError("empty chromosome found", Nil))]
    ELSE [returned |-> FALSE, fitness |-> 0, err |-> Nil]

\* one iteration of Evaluate's loop, on gene k with the running sum
EvaluateGene(chromosome, k, sum, ctx) ==
    IF ctx # ""
    THEN [returned |-> TRUE, sum |-> 0,
          err |-> NewFitnessEvaluationError("context cancelled", ContextErr(ctx))]
    ELSE LET c == ConvertToFloat64(chromosome[k])
         IN  IF c.err # Nil
             THEN [returned |-> TRUE, sum |-> 0,
                   err |-> NewFitnessEvaluationError("invalid chromosome value",
                               NewInvalidChromosomeError(
                                   "unable to convert chromosome value to float64", c.err))]
             ELSE [returned |-> k = Len(chromosome), sum |-> sum + c.value, err |-> Nil]

\* Evaluate run to its end under a context that does not change meanwhile
RECURSIVE EvaluateLoop(_, _, _, _)
EvaluateLoop(chromosome, k, sum, ctx) ==
    LET r == EvaluateGene(chromosome, k, sum, ctx)
    IN  IF r.returned THEN [fitness |-> r.sum, err |-> r.err]
        ELSE EvaluateLoop(chromosome, k + 1, r.sum, ctx)

Evaluate(chromosome, ctx) ==
    LET e == EvaluateEntry(chromosome, ctx)
    IN  IF e.returned THEN [fitness |-> e.fitness, err |-> e.err]
        ELSE EvaluateLoop(chromosome, 1, 0, ctx)

-----------------------------------------------------------------------------
(* SimpleSwapMutator *)

\* the values rand.Float64() can take, in units of 1/RateScale: [0, 1)
GateDraws == 0..(RateScale - 1)

Swap(ch, a, b) == [ch EXCEPT ![a] = ch[b], ![b] = ch[a]]

\* variant: the second draw used as it is, without the step past the first
SecondPositionUnadjusted(first, second) == second

\* the second position: if first == second { second++ }
SecondPosition(first, second) == IF first = second THEN second + 1 ELSE second

\* variant: Mutate without its cancellation check
MutateNoCtx(chromosome, rate, ctx, draw, first, second) ==
    IF Len(chromosome) = 0
    THEN [chromosome |-> chromosome, swapped |-> FALSE,
          err |-> NewMutationError("cannot mutate chromosome",
                      NewInvalidChromosomeError("empty chromosome found", Nil))]
    ELSE IF Len(chromosome) < 2
    THEN [chromosome |-> chromosome, swapped |-> FALSE,
          err |-> NewMutationError("cannot mutate chromosome",
                      NewInvalidChromosomeError("chromosome must contain at least 2 genes", Nil))]
    ELSE IF draw > rate
    THEN [chromosome |-> chromosome, swapped |-> FALSE, err |-> Nil]
    ELSE [chromosome |-> Swap(chromosome, first + 1, SecondPosition(first, second) + 1),
          swapped |-> TRUE, err |-> Nil]

\* variant: the second position is not moved off the first
MutateSamePosition(chromosome, rate, ctx, draw, first, second) ==
    IF Len(chromosome) = 0
    THEN [chromosome |-> chromosome, swapped |-> FALSE,
          err |-> NewMutationError("cannot mutate chromosome",
                      NewInvalidChromosomeError("empty chromosome found", Nil))]
    ELSE IF Len(chromosome) < 2
    THEN [chromosome |-> chromosome, swapped |-> FALSE,
          err |-> NewMutationError("cannot mutate chromosome",
                      NewInvalidChromosomeError("chromosome must contain at least 2 genes", Nil))]
    ELSE IF draw > rate
    THEN [chromosome |-> chromosome, swapped |-> FALSE, err |-> Nil]
    ELSE IF ctx # ""
    THEN [chromosome |-> chromosome, swapped |-> FALSE,
          err |-> NewMutationError("context cancelled", ContextErr(ctx))]
    ELSE [chromosome |-> Swap(chromosome, first + 1, second + 1),
          swapped |-> TRUE, err |-> Nil]

\* variant: the rate gate and the cancellation check come before the
\* validation of the chromosome
MutateGateFirst(chromosome, rate, ctx, draw, first, second) ==
    IF draw > rate
    THEN [chromosome |-> chromosome, swapped |-> FALSE, err |-> Nil]
    ELSE IF ctx # ""
    THEN [chromosome |-> chromosome, swapped |-> FALSE,
          err |-> NewMutationError("context cancelled", ContextErr(ctx))]
    ELSE IF Len(chromosome) = 0
    THEN [chromosome |-> chromosome, swapped |-> FALSE,
          err |-> NewMutationError("cannot mutate chromosome",
                      NewInvalidChromosomeError("empty chromosome found", Nil))]
    ELSE IF Len(chromosome) < 2
    THEN [chromosome |-> chromosome, swapped |-> FALSE,
          err |-> NewMutationError("cannot mutate chromosome",
                      NewInvalidChromosomeError("chromosome must contain at least 2 genes", Nil))]
    ELSE [chromosome |-> Swap(chromosome, first + 1, SecondPosition(first, second) + 1),
          swapped |-> TRUE, err |-> Nil]

\* Mutate with its three random draws: draw = rand.Float64(), first =
\* rand.Intn(n), second = rand.Intn(n-1), the last two 0-based as in the source
Mutate(chromosome, rate, ctx, draw, first, second) ==
    IF Len(chromosome) = 0
    THEN [chromosome |-> chromosome, swapped |-> FALSE,
          err |-> NewMutationError("cannot mutate chromosome",
                      NewInvalidChromosomeError("empty chromosome found", Nil))]
    ELSE IF Len(chromosome) < 2
    THEN [chromosome |-> chromosome, swapped |-> FALSE,
          err |-> NewMutationError("cannot mutate chromosome",
                      NewInvalidChromosomeError("chromosome must contain at least 2 genes", Nil))]
    ELSE IF draw > rate
    THEN [chromosome |-> chromosome, swapped |-> FALSE, err |-> Nil]
    ELSE IF ctx # ""
    THEN [chromosome |-> chromosome, swapped |-> FALSE,
          err |-> NewMutationError("context cancelled", ContextErr(ctx))]
    ELSE [chromosome |-> Swap(chromosome, first + 1, SecondPosition(first, second) + 1),
          swapped |-> TRUE, err |-> Nil]

\* the draws Mutate can make on a chromosome of length n
FirstDraws(n) == IF n >= 2 THEN 0..(n - 1) ELSE {0}

SecondDraws(n) == IF n >= 2 THEN 0..(n - 2) ELSE {0}

-----------------------------------------------------------------------------
(* SinglePointCrossover *)

\* variant: the second offspring takes its tail from the second parent too
CrossoverSameTail(parent1, parent2, point) ==
    IF Len(parent1) = 0 \/ Len(parent2) = 0
    THEN [offspring1 |-> <<>>, offspring2 |-> <<>>,
          err |-> NewCrossoverError("cannot perform crossover",
                      NewInvalidChromosomeError("parent chromosomes cannot be empty", Nil))]
    ELSE IF Len(parent1) # Len(parent2)
    THEN [offspring1 |-> <<>>, offspring2 |-> <<>>,
          err |-> NewCrossoverError("cannot perform crossover",
                      NewInvalidChromosomeError(
                          "parent chromosomes must be of the same length", Nil))]
    ELSE IF Len(parent1) = 1
    THEN [offspring1 |-> parent1, offspring2 |-> parent2, err |-> Nil]
    ELSE [offspring1 |-> SubSeq(parent1, 1, point) \o SubSeq(parent2, point + 1, Len(parent2)),
          offspring2 |-> SubSeq(parent2, 1, point) \o SubSeq(parent2, point + 1, Len(parent2)),
          err |-> Nil]

\* variant: parents of different lengths are crossed as they are
CrossoverAnyLengths(parent1, parent2, point) ==
    IF Len(parent1) = 0 \/ Len(parent2) = 0
    THEN [offspring1 |-> <<>>, offspring2 |-> <<>>,
          err |-> NewCrossoverError("cannot perform crossover",
                      NewInvalidChromosomeError("parent chromosomes cannot be empty", Nil))]
    ELSE IF Len(parent1) = 1
    THEN [offspring1 |-> parent1, offspring2 |-> parent2, err |-> Nil]
    ELSE [offspring1 |-> SubSeq(parent1, 1, point) \o SubSeq(parent2, point + 1, Len(parent2)),
          offspring2 |-> SubSeq(parent2, 1, point) \o SubSeq(parent1, point + 1, Len(parent1)),
          err |-> Nil]

\* Crossover with point = rand.Intn(len-1) + 1
Crossover(parent1, parent2, point) ==
    IF Len(parent1) = 0 \/ Len(parent2) = 0
    THEN [offspring1 |-> <<>>, offspring2 |-> <<>>,
          err |-> NewCrossoverError("cannot perform crossover",
                      NewInvalidChromosomeError("parent chromosomes cannot be empty", Nil))]
    ELSE IF Len(parent1) # Len(parent2)
    THEN [offspring1 |-> <<>>, offspring2 |-> <<>>,
          err |-> NewCrossoverError("cannot perform crossover",
                      NewInvalidChromosomeError(
                          "parent chromosomes must be of the same length", Nil))]
    ELSE IF Len(parent1) = 1
    THEN [offspring1 |-> parent1, offspring2 |-> parent2, err |-> Nil]
    ELSE [offspring1 |-> SubSeq(parent1, 1, point) \o SubSeq(parent2, point + 1, Len(parent2)),
          offspring2 |-> SubSeq(parent2, 1, point) \o SubSeq(parent1, point + 1, Len(parent1)),
          err |-> Nil]

\* variant: the point drawn as rand.Intn(len-1), without the + 1
CrossoverPointsFromZero(n) == IF n >= 2 THEN 0..(n - 2) ELSE {1}

\* the crossover points rand.Intn(len-1) + 1 can give for parents of length n
CrossoverPoints(n) == IF n >= 2 THEN 1..(n - 1) ELSE {1}

-----------------------------------------------------------------------------
(* TournamentSelector *)

Permutations(n) == {p \in [1..n -> 1..n] : \A i, j \in 1..n : p[i] = p[j] => i = j}

Permute(s, p) == [i \in 1..Len(s) |-> s[p[i]]]

\* variant: the individuals left in any order, as without the sort
UnsortedOrders(inds) == Permutations(Len(inds))

\* the orders sort.Slice can leave the individuals in: descending fitness,
\* individuals of equal fitness in any order (the sort is not stable)
SortedOrders(inds) ==
    {p \in Permutations(Len(inds)) :
        \A i, j \in 1..Len(inds) : i < j => inds[p[i]].Fitness >= inds[p[j]].Fitness}

\* variant: a later draw replaces the winner also when it ties with it
RECURSIVE TournamentFromLastBest(_, _, _, _)
TournamentFromLastBest(pool, draws, j, winnerIndex) ==
    IF j > Len(draws) THEN winnerIndex
    ELSE TournamentFromLastBest(pool, draws, j + 1,
            IF pool[draws[j]].Fitness >= pool[winnerIndex].Fitness
            THEN draws[j] ELSE winnerIndex)

\* one tournament: draws[1] is the first winner, each later draw replaces the
\* winner only when its fitness is strictly greater
RECURSIVE TournamentFrom(_, _, _, _)
TournamentFrom(pool, draws, j, winnerIndex) ==
    IF j > Len(draws) THEN winnerIndex
    ELSE TournamentFrom(pool, draws, j + 1,
            IF pool[draws[j]].Fitness > pool[winnerIndex].Fitness
            THEN draws[j] ELSE winnerIndex)

Tournament(pool, draws) == TournamentFrom(pool, draws, 2, draws[1])

\* the pool indices a tournament of size t over the pool can return
TournamentOutcomes(pool, t) ==
    {Tournament(pool, d) : d \in [1..t -> 1..Len(pool)]}

\* the elites and the pool, after the sort left the individuals in order
SelectionPool(inds, k, order) ==
    IF k > 0 THEN SubSeq(Permute(inds, order), k + 1, Len(inds)) ELSE inds

\* variant: no elite is copied to the output
ElitesNone(inds, k, order) == <<>>

Elites(inds, k, order) ==
    [i \in 1..k |-> DeepCopy(Permute(inds, order)[i])]

\* NewTournamentSelector: the error of the constructor, nil when it builds
\* the selector (the messages leave out the number the source formats in)
NewTournamentSelector(t, k) ==
    IF t <= 0
    THEN NewSelectionError("invalid tournament size",
             Errorf("tournament size must be positive", Nil))
    ELSE IF k < 0
    THEN NewSelectionError("invalid number of elites",
             Errorf("number of elites cannot be negative", Nil))
    ELSE Nil

\* variant: Select rejects an elite count only when it exceeds the size, and
\* returns copies of all individuals when it equals the size
SelectElitesUpToSize(p, t, k, order, winners) ==
    IF p.isNil \/ Len(p.Individuals) = 0
    THEN [population |-> NilPopulation,
          err |-> NewSelectionError("cannot perform selection on nil or empty population",
                      ErrPopulationEmpty)]
    ELSE IF k > Len(p.Individuals)
    THEN [population |-> NilPopulation,
          err |-> NewSelectionError(
                      "number of elites is greater than or equal to population size", Nil)]
    ELSE IF k = Len(p.Individuals)
    THEN [population |->
              CreatePopulation([i \in 1..Len(p.Individuals) |-> DeepCopy(p.Individuals[i])]),
          err |-> Nil]
    ELSE LET inds == p.Individuals
             pool == SelectionPool(inds, k, order)
             numToSelect == Len(inds) - k
         IN  [population |->
                  CreatePopulation(Elites(inds, k, order)
                      \o [i \in 1..numToSelect |-> DeepCopy(pool[winners[i]])]),
              err |-> Nil]

\* Select, given the order the sort produced and the winner of each tournament
\* (the message of the elite-count error leaves out the two numbers the
\* source formats into it)
Select(p, t, k, order, winners) ==
    IF p.isNil \/ Len(p.Individuals) = 0
    THEN [population |-> NilPopulation,
          err |-> NewSelectionError("cannot perform selection on nil or empty population",
                      ErrPopulationEmpty)]
    ELSE IF k >= Len(p.Individuals)
    THEN [population |-> NilPopulation,
          err |-> NewSelectionError(
                      "number of elites is greater than or equal to population size", Nil)]
    ELSE LET inds == p.Individuals
             pool == SelectionPool(inds, k, order)
             numToSelect == Len(inds) - k
         IN  [population |->
                  CreatePopulation(Elites(inds, k, order)
                      \o [i \in 1..numToSelect |-> DeepCopy(pool[winners[i]])]),
              err |-> Nil]

\* the backing array of the chromosome of input individual j
InputStorage(j) == [origin |-> "input", index |-> j, genesOf |-> j]

\* variant: a copy of the Solution struct, whose Chromosome slice shares the
\* backing array of the original
ShallowCopyStorage(src, slot) == src

\* DeepCopy's append([]T{}, s.Chromosome...) allocates a backing array for
\* the copy, here named after the output slot the copy goes to, and fills it
\* with the genes of the source
DeepCopyStorage(src, slot) == [origin |-> "output", index |-> slot, genesOf |-> src.genesOf]

\* variant: the pool is the whole sorted copy, elites included
PoolSourceWhole(k, order, w) == IF k > 0 THEN order[w] ELSE w

\* the input individual that tournament winner w of the pool is: the pool is
\* the tail of the sorted copy, or the input slice itself
PoolSource(k, order, w) == IF k > 0 THEN order[k + w] ELSE w

\* the backing array of each individual Select returns, for n individuals
SelectStorage(n, k, order, winners) ==
    [i \in 1..n |->
        IF i <= k
        THEN DeepCopyStorage(InputStorage(order[i]), i)
        ELSE DeepCopyStorage(InputStorage(PoolSource(k, order, winners[i - k])), i)]

\* whether Select reaches its sort and its tournaments
SelectRuns(p, k) == ~(p.isNil \/ Len(p.Individuals) = 0) /\ k < Len(p.Individuals)

-----------------------------------------------------------------------------
(* The errgroup of RefreshFitness and PerformMutation *)

IdleUnit == [phase |-> "idle", k |-> 0, sum |-> 0, err |-> Nil]

\* variant: every worker count is installed as a limit
LimitedAlways(n) == TRUE

\* g.SetLimit is called unless numWorkers is -1; a negative limit means none
Limited(n) == n # Unbounded /\ n >= 0

\* variant: a semaphore that admits one unit more than its limit
HasSlotOffByOne(n, held) == ~Limited(n) \/ held <= n

\* g.Go blocks until the semaphore has a free slot
HasSlot(n, held) == ~Limited(n) \/ held < n

\* variant: every failing unit overwrites g.err
ErrLast(g, err) == err

\* errOnce.Do: only the first error a unit returns is kept in g.err
ErrOnce(g, err) == IF g = Nil THEN err ELSE g

\* the first error also cancels gCtx; a context already cancelled keeps its Err()
CancelOnce(g, gctx) == IF g = Nil /\ gctx = "" THEN "Canceled" ELSE gctx

\* the units that hold a worker: started by g.Go and not yet through
\* errgroup's done()
InFlight(u) == {i \in DOMAIN u : u[i].phase \in {"spawned", "loop", "returned"}}

\* variant: the stage returns after dispatching, without joining the units
WaitReturnsUnjoined(u, nxt) == nxt > Len(u)

\* g.Wait returns once the dispatch loop is over and every unit has returned
WaitReturns(u, nxt) == nxt > Len(u) /\ \A i \in DOMAIN u : u[i].phase = "done"

\* variant: the goroutine drops the result of Evaluate
StoreFitnessNever(ind, fitness, err) == ind

\* variant: the goroutine stores whatever Evaluate returned
StoreFitnessAlways(ind, fitness, err) == [ind EXCEPT !.Fitness = fitness]

\* the goroutine of RefreshFitness stores the fitness unless Evaluate failed
StoreFitness(ind, fitness, err) ==
    IF err # Nil THEN ind ELSE [ind EXCEPT !.Fitness = fitness]

\* what the stages make of g.Wait()'s error
RefreshFitnessError(err) ==
    IF err # Nil THEN NewFitnessEvaluationError("failed to evaluate fitness", err) ELSE Nil

PerformMutationError(err) ==
    IF err # Nil THEN NewFitnessEvaluationError("failed to evaluate fitness", err) ELSE Nil

N == Len(population.Individuals)

\* errgroup.WithContext(ctx): gCtx is cancelled from the start if ctx is
GroupStart ==
    /\ gctxErr' = ctxErr
    /\ gErr' = Nil
    /\ sem' = 0
    /\ next' = 1
    /\ unit' = [i \in 1..N |-> IdleUnit]

\* the function of unit i returns err to errgroup's goroutine, which has yet
\* to look at it
FuncReturns(i, err) == [unit EXCEPT ![i] = [phase |-> "returned", k |-> 0, sum |-> 0, err |-> err]]

\* errgroup's goroutine after the function of unit i returned err: errOnce.Do
\* records the first error and cancels gCtx, done() releases the worker
UnitReturns(i, err) ==
    /\ unit' = [unit EXCEPT ![i] = [phase |-> "done", k |-> 0, sum |-> 0, err |-> err]]
    /\ gErr' = IF err # Nil THEN ErrOnce(gErr, err) ELSE gErr
    /\ gctxErr' = IF err # Nil THEN CancelOnce(gErr, gctxErr) ELSE gctxErr
    /\ sem' = IF Limited(numWorkers) THEN sem - 1 ELSE sem
    /\ failLog' = IF err # Nil THEN Append(failLog, [index |-> i, err |-> err]) ELSE failLog
    /\ next' = next

StageEntry(s) ==
    /\ stage = s
    /\ sp = "entry"
    /\ entryPop' = population
    /\ entryCtx' = ctxErr

RefreshFitnessEntry ==
    /\ StageEntry("RefreshFitness")
    /\ IF PopulationEmpty(population)
       THEN /\ stageErr' = ErrPopulationEmpty
            /\ sp' = "ret"
            /\ UNCHANGED groupVars
       ELSE /\ GroupStart
            /\ sp' = "run"
            /\ stageErr' = Nil
    /\ UNCHANGED <<population, cfgVars, opVars, ctxErr, loopVars, stage, retPop, trace,
                   calls, failLog>>

PerformMutationEntry ==
    /\ StageEntry("PerformMutation")
    /\ IF PopulationEmpty(population)
       THEN /\ stageErr' = ErrPopulationEmpty
            /\ sp' = "ret"
            /\ UNCHANGED groupVars
       ELSE /\ GroupStart
            /\ sp' = "run"
            /\ stageErr' = Nil
    /\ UNCHANGED <<population, cfgVars, opVars, ctxErr, loopVars, stage, retPop, trace,
                   calls, failLog>>

\* the dispatch loop: g.Go(func) for the next individual
Go ==
    /\ stage \in {"RefreshFitness", "PerformMutation"}
    /\ sp = "run"
    /\ next <= N
    /\ HasSlot(numWorkers, sem)
    /\ unit' = [unit EXCEPT ![next].phase = "spawned"]
    /\ sem' = IF Limited(numWorkers) THEN sem + 1 ELSE sem
    /\ next' = next + 1
    /\ UNCHANGED <<population, cfgVars, opVars, ctxErr, loopVars, stage, sp, gctxErr, gErr,
                   stageErr, retPop, trace, calls, failLog, entryPop, entryCtx>>

\* unit i calls Evaluate, which runs up to its loop
EvaluateStart(i) ==
    /\ stage = "RefreshFitness"
    /\ sp = "run"
    /\ unit[i].phase = "spawned"
    /\ calls' = [calls EXCEPT !.evaluate = @ + 1]
    /\ LET r == EvaluateEntry(population.Individuals[i].Chromosome, gctxErr)
       IN  IF r.returned
           THEN /\ unit' = FuncReturns(i, r.err)
                /\ population' = [population EXCEPT
                       !.Individuals[i] = StoreFitness(@, r.fitness, r.err)]
           ELSE /\ unit' = [unit EXCEPT ![i] = [phase |-> "loop", k |-> 1, sum |-> 0, err |-> Nil]]
                /\ UNCHANGED population
    /\ UNCHANGED <<gErr, gctxErr, sem, next, failLog>>
    /\ UNCHANGED <<cfgVars, opVars, ctxErr, loopVars, stage, sp, stageErr, retPop, trace,
                   entryPop, entryCtx>>

\* unit i runs one iteration of Evaluate's loop; after the last one Evaluate
\* returns and the goroutine stores the fitness. The store is to the unit's own
\* slot, which nothing else reads or writes before Wait has returned, so it is
\* taken in the step of Evaluate's last context check
EvaluateStep(i) ==
    /\ stage = "RefreshFitness"
    /\ sp = "run"
    /\ unit[i].phase = "loop"
    /\ LET r == EvaluateGene(population.Individuals[i].Chromosome, unit[i].k,
                             unit[i].sum, gctxErr)
       IN  IF r.returned
           THEN /\ unit' = FuncReturns(i, r.err)
                /\ population' = [population EXCEPT
                       !.Individuals[i] = StoreFitness(@, r.sum, r.err)]
           ELSE /\ unit' = [unit EXCEPT ![i].k = @ + 1, ![i].sum = r.sum]
                /\ UNCHANGED population
    /\ UNCHANGED <<gErr, gctxErr, sem, next, failLog>>
    /\ UNCHANGED <<cfgVars, opVars, ctxErr, loopVars, stage, sp, stageErr, retPop, trace,
                   calls, entryPop, entryCtx>>

\* unit i calls Mutate on its individual's chromosome
MutateUnit(i) ==
    /\ stage = "PerformMutation"
    /\ sp = "run"
    /\ unit[i].phase = "spawned"
    /\ calls' = [calls EXCEPT !.mutate = @ + 1]
    /\ LET ch == population.Individuals[i].Chromosome
       IN  \E draw \in GateDraws, first \in FirstDraws(Len(ch)), second \in SecondDraws(Len(ch)) :
              LET r == Mutate(ch, mutationRate, gctxErr, draw, first, second)
              IN  /\ unit' = FuncReturns(i, r.err)
                  /\ population' = [population EXCEPT !.Individuals[i].Chromosome = r.chromosome]
    /\ UNCHANGED <<gErr, gctxErr, sem, next, failLog>>
    /\ UNCHANGED <<cfgVars, opVars, ctxErr, loopVars, stage, sp, stageErr, retPop, trace,
                   entryPop, entryCtx>>

\* errgroup's goroutine of unit i goes on after the unit's function returned
UnitDone(i) ==
    /\ stage \in {"RefreshFitness", "PerformMutation"}
    /\ sp = "run"
    /\ unit[i].phase = "returned"
    /\ UnitReturns(i, unit[i].err)
    /\ UNCHANGED <<population, cfgVars, opVars, ctxErr, loopVars, stage, sp, stageErr, retPop,
                   trace, calls, entryPop, entryCtx>>

\* g.Wait() returns and the stage returns with it
Wait ==
    /\ stage \in {"RefreshFitness", "PerformMutation"}
    /\ sp = "run"
    /\ WaitReturns(unit, next)
    /\ stageErr' = IF stage = "RefreshFitness" THEN RefreshFitnessError(gErr)
                   ELSE PerformMutationError(gErr)
    /\ sp' = "ret"
    /\ UNCHANGED <<population, cfgVars, opVars, ctxErr, loopVars, stage, groupVars, retPop,
                   trace, calls, failLog, entryPop, entryCtx>>

\* the caller cancels ctx, or its deadline passes, before the stage derives
\* gCtx from it. Only RefreshFitness and PerformMutation read ctx, so a
\* cancellation between two stages is the same as one at the entry of the
\* next of these two.
CancelCtx ==
    /\ ctxErr = ""
    /\ stage \in {"RefreshFitness", "PerformMutation"}
    /\ sp = "entry"
    /\ ctxErr' \in {"Canceled", "DeadlineExceeded"}
    /\ UNCHANGED <<population, cfgVars, opVars, loopVars, stage, sp, groupVars,
                   stageErr, retPop, trace, calls, failLog, entryPop, entryCtx>>

\* the same while the units run: gCtx, a child of ctx, is cancelled with it
\* unless the group has cancelled it already
CancelCtxRunning ==
    /\ ctxErr = ""
    /\ stage \in {"RefreshFitness", "PerformMutation"}
    /\ sp = "run"
    /\ \E e \in {"Canceled", "DeadlineExceeded"} :
          /\ ctxErr' = e
          /\ gctxErr' = IF gctxErr = "" THEN e ELSE gctxErr
    /\ UNCHANGED <<population, cfgVars, opVars, loopVars, stage, sp, gErr, sem, next, unit,
                   stageErr, retPop, trace, calls, failLog, entryPop, entryCtx>>

-----------------------------------------------------------------------------
(* The single-threaded stages *)

PerformSelection ==
    /\ StageEntry("PerformSelection")
    /\ IF PopulationEmpty(population)
       THEN /\ retPop' = NilPopulation
            /\ stageErr' = ErrPopulationEmpty
            /\ calls' = calls
       ELSE /\ calls' = [calls EXCEPT !.select = @ + 1]
            /\ IF SelectRuns(population, numElites)
               THEN \E order \in SortedOrders(population.Individuals) :
                       LET pool == SelectionPool(population.Individuals, numElites, order)
                       IN  \E winners \in [1..(N - numElites) ->
                                              TournamentOutcomes(pool, tournamentSize)] :
                              LET r == Select(population, tournamentSize, numElites,
                                              order, winners)
                              IN  /\ retPop' = r.population
                                  /\ stageErr' = r.err
               ELSE LET r == Select(population, tournamentSize, numElites, <<>>, <<>>)
                    IN  /\ retPop' = r.population
                        /\ stageErr' = r.err
    /\ sp' = "ret"
    /\ UNCHANGED <<population, cfgVars, opVars, ctxErr, loopVars, stage, groupVars, trace, failLog>>

\* the pairing loop of PerformCrossover over the shuffled individuals, from
\* index i on, with the offspring built so far and the crossover calls made
\* variant: the individual left without a partner is not appended
RECURSIVE CrossoverPairsDropOdd(_, _, _, _, _)
CrossoverPairsDropOdd(inds, points, i, offspring, made) ==
    IF i + 1 > Len(inds)
    THEN [population |-> CreatePopulation(offspring), err |-> Nil, made |-> made]
    ELSE LET r == Crossover(inds[i].Chromosome, inds[i + 1].Chromosome, points[(i + 1) \div 2])
         IN  IF r.err # Nil
             THEN [population |-> NilPopulation, err |-> r.err, made |-> made + 1]
             ELSE CrossoverPairsDropOdd(inds, points, i + 2,
                      offspring \o <<Solution(r.offspring1, 0), Solution(r.offspring2, 0)>>,
                      made + 1)

RECURSIVE CrossoverPairs(_, _, _, _, _)
CrossoverPairs(inds, points, i, offspring, made) ==
    IF i > Len(inds) THEN [population |-> CreatePopulation(offspring), err |-> Nil, made |-> made]
    ELSE IF i + 1 > Len(inds)
    THEN [population |-> CreatePopulation(Append(offspring, inds[i])), err |-> Nil, made |-> made]
    ELSE LET r == Crossover(inds[i].Chromosome, inds[i + 1].Chromosome, points[(i + 1) \div 2])
         IN  IF r.err # Nil
             THEN [population |-> NilPopulation, err |-> r.err, made |-> made + 1]
             ELSE CrossoverPairs(inds, points, i + 2,
                      offspring \o <<Solution(r.offspring1, 0), Solution(r.offspring2, 0)>>,
                      made + 1)

\* the crossover points the pairs of the shuffled individuals can draw
LongestChromosome(inds) ==
    IF Len(inds) = 0 THEN 0 ELSE
    CHOOSE n \in {Len(inds[i].Chromosome) : i \in DOMAIN inds} :
        \A i \in DOMAIN inds : Len(inds[i].Chromosome) <= n

PairPoints(inds) ==
    {pts \in [1..(Len(inds) \div 2) -> 1..(LongestChromosome(inds) + 1)] :
        \A j \in DOMAIN pts :
            pts[j] \in CrossoverPoints(Len(inds[2 * j - 1].Chromosome))}

\* the backing array Crossover makes for an offspring chromosome, named after
\* the slot of the offspring; its genes come from two parents
MadeStorage(slot) == [origin |-> "output", index |-> slot, genesOf |-> 0]

\* the backing array of the chromosome of each individual PerformCrossover
\* returns for n individuals, InputStorage(j) being that of e.population's
\* individual j after the shuffle in place: the offspring of a pair hold the
\* slices Crossover made; the individual left without a partner is appended
\* as a copy of the Solution struct, whose Chromosome slice shares the
\* backing array of the individual it was copied from
CrossoverStorage(n) ==
    [i \in 1..n |-> IF i = n /\ n % 2 = 1 THEN InputStorage(i) ELSE MadeStorage(i)]

PerformCrossover ==
    /\ StageEntry("PerformCrossover")
    /\ IF PopulationEmpty(population)
       THEN /\ retPop' = NilPopulation
            /\ stageErr' = NewCrossoverError("cannot perform crossover on empty population",
                               ErrPopulationEmpty)
            /\ opOut' = [store |-> <<>>]
            /\ UNCHANGED <<population, calls>>
       ELSE \E perm \in Permutations(N) :
               LET shuffled == Permute(population.Individuals, perm)
               IN  \E points \in PairPoints(shuffled) :
                      LET r == CrossoverPairs(shuffled, points, 1, <<>>, 0)
                      IN  /\ population' = [population EXCEPT !.Individuals = shuffled]
                          /\ retPop' = r.population
                          /\ stageErr' = r.err
                          /\ opOut' = [store |-> IF r.err = Nil THEN CrossoverStorage(N)
                                                 ELSE <<>>]
                          /\ calls' = [calls EXCEPT !.crossover = @ + r.made]
    /\ sp' = "ret"
    /\ UNCHANGED <<cfgVars, opIn, ctxErr, loopVars, stage, groupVars, trace, failLog>>

\* TournamentSelector.Select called on the population directly
SelectCall ==
    /\ StageEntry("Select")
    /\ calls' = calls
    /\ IF SelectRuns(population, numElites)
       THEN \E order \in SortedOrders(population.Individuals) :
               LET pool == SelectionPool(population.Individuals, numElites, order)
               IN  \E winners \in [1..(N - numElites) ->
                                      TournamentOutcomes(pool, tournamentSize)] :
                      LET r == Select(population, tournamentSize, numElites, order, winners)
                      IN  /\ retPop' = r.population
                          /\ stageErr' = r.err
                          /\ opOut' = [store |-> SelectStorage(N, numElites, order, winners)]
       ELSE LET r == Select(population, tournamentSize, numElites, <<>>, <<>>)
            IN  /\ retPop' = r.population
                /\ stageErr' = r.err
                /\ opOut' = [store |-> <<>>]
    /\ sp' = "ret"
    /\ UNCHANGED <<population, cfgVars, opIn, ctxErr, loopVars, stage, groupVars, trace, failLog>>

\* one tournament of Select over the individuals of the population as the
\* pool, with the draws rand.Intn(selectionPoolSize) made; the winner is
\* copied to the output
TournamentCall ==
    /\ StageEntry("Tournament")
    /\ LET winnerIndex == Tournament(population.Individuals, opIn.draws)
       IN  opOut' = [winner |-> winnerIndex,
                     individual |-> DeepCopy(population.Individuals[winnerIndex])]
    /\ stageErr' = Nil
    /\ sp' = "ret"
    /\ UNCHANGED <<population, cfgVars, opIn, ctxErr, loopVars, stage, groupVars,
                   retPop, trace, calls, failLog>>

\* SinglePointCrossover.Crossover(parent1, parent2) called directly
CrossoverCall ==
    /\ StageEntry("Crossover")
    /\ \E point \in CrossoverPoints(Len(opIn.parent1)) :
          LET r == Crossover(opIn.parent1, opIn.parent2, point)
          IN  /\ opOut' = [offspring1 |-> r.offspring1, offspring2 |-> r.offspring2,
                           point |-> point]
              /\ stageErr' = r.err
    /\ sp' = "ret"
    /\ UNCHANGED <<population, cfgVars, opIn, ctxErr, loopVars, stage, groupVars,
                   retPop, trace, calls, failLog>>

\* Population.BestSolution() and Population.BestFitness() called on the
\* population, one after the other
BestCall ==
    /\ StageEntry("BestSolution")
    /\ LET b == BestSolution(population)
           f == BestFitness(population)
       IN  /\ opOut' = [sol |-> b.sol, fitness |-> f.fitness, fitnessErr |-> f.err]
           /\ stageErr' = b.err
    /\ sp' = "ret"
    /\ UNCHANGED <<population, cfgVars, opIn, ctxErr, loopVars, stage, groupVars,
                   retPop, trace, calls, failLog>>

\* SimpleSumFitnessEvaluator.Evaluate(ctx, chromosome) called directly, ctx
\* staying as it is during the call
EvaluateCall ==
    /\ StageEntry("Evaluate")
    /\ LET r == Evaluate(opIn.chromosome, ctxErr)
       IN  /\ opOut' = [fitness |-> r.fitness]
           /\ stageErr' = r.err
    /\ calls' = [calls EXCEPT !.evaluate = @ + 1]
    /\ sp' = "ret"
    /\ UNCHANGED <<population, cfgVars, opIn, ctxErr, loopVars, stage, groupVars,
                   retPop, trace, failLog>>

\* the *[]T argument of Mutate: a nil pointer, a pointer to a nil slice, or
\* a pointer to a slice of genes; the first two hold no genes
ChromosomeArg(ptrNil, sliceNil, genes) ==
    [ptrNil |-> ptrNil, sliceNil |-> sliceNil, genes |-> genes]

\* SimpleSwapMutator.Mutate(ctx, chromosome) called directly; the slice the
\* caller holds afterwards is the one Mutate swapped in place
MutateCall ==
    /\ StageEntry("Mutate")
    /\ \E draw \in GateDraws :
       \E first \in FirstDraws(Len(opIn.chromosome.genes)) :
       \E second \in SecondDraws(Len(opIn.chromosome.genes)) :
          LET r == Mutate(opIn.chromosome.genes, mutationRate, ctxErr, draw, first, second)
          IN  /\ opOut' = [chromosome |-> [opIn.chromosome EXCEPT !.genes = r.chromosome],
                           swapped |-> r.swapped,
                           draw |-> draw, first |-> first, second |-> second]
              /\ stageErr' = r.err
    /\ sp' = "ret"
    /\ UNCHANGED <<population, cfgVars, opIn, ctxErr, loopVars, stage, groupVars,
                   retPop, trace, calls, failLog>>

-----------------------------------------------------------------------------
(* Loop *)

\* variant: a loop condition that is off by one
LoopContinuesInclusive(i, g) == i <= g

\* the for statement of Loop: i < generations
LoopContinues(i, g) == i < g

\* variant: the stage's error formatted into the message (%v) instead of wrapped
GenerationErrorOpaque(msg, i, err) == ErrorfGen(msg, i, Nil)

\* variant: the message of the trailing refresh used inside the loop as well
GenerationErrorNoIndex(msg, i, err) == Errorf(msg, err)

\* the error Loop returns for a stage that failed inside generation i
GenerationError(msg, i, err) == ErrorfGen(msg, i, err)

\* the error Loop returns when the refresh after the last generation failed
FinalError(msg, err) == Errorf(msg, err)

GroupIdle ==
    /\ gctxErr' = ""
    /\ gErr' = Nil
    /\ sem' = 0
    /\ next' = 1
    /\ unit' = <<>>

\* the control thread calls a stage method
Call(s) ==
    /\ stage' = s
    /\ sp' = "entry"
    /\ trace' = Append(trace, s)
    /\ stageErr' = Nil
    /\ retPop' = NilPopulation
    /\ failLog' = <<>>
    /\ entryPop' = NilPopulation
    /\ entryCtx' = ""
    /\ GroupIdle

\* variant: the failed stage's nil result assigned to e.population before
\* the error is looked at
FailCommitting(err) ==
    /\ pc' = "failed"
    /\ loopErr' = err
    /\ loopRet' = NilPopulation
    /\ stage' = "none"
    /\ sp' = "idle"
    /\ population' = IF stage \in {"PerformSelection", "PerformCrossover"}
                     THEN retPop ELSE population
    /\ UNCHANGED <<gen, groupVars, stageErr, retPop, trace, failLog,
                   entryPop, entryCtx, lastBest>>

\* return nil, err
Fail(err) ==
    /\ pc' = "failed"
    /\ loopErr' = err
    /\ loopRet' = NilPopulation
    /\ stage' = "none"
    /\ sp' = "idle"
    /\ UNCHANGED <<population, gen, groupVars, stageErr, retPop, trace, failLog,
                   entryPop, entryCtx, lastBest>>

\* the for statement and, inside the loop, bar.Add(1), whose error Loop
\* returns as it is before any stage is called; after the loop the trailing
\* RefreshFitness
LoopHead ==
    /\ pc = "head"
    /\ IF LoopContinues(gen, generations)
       THEN \/ /\ pc' = "refresh"
               /\ Call("RefreshFitness")
               /\ UNCHANGED <<population, gen, loopErr, loopRet, lastBest>>
            \/ Fail(ErrProgressBar)
       ELSE /\ pc' = "final"
            /\ Call("RefreshFitness")
            /\ UNCHANGED <<population, gen, loopErr, loopRet, lastBest>>
    /\ UNCHANGED <<cfgVars, opVars, ctxErr, calls>>

AfterRefresh ==
    /\ pc = "refresh"
    /\ sp = "ret"
    /\ IF stageErr # Nil
       THEN Fail(GenerationError("failed to refresh fitness", gen, stageErr))
       ELSE IF BestFitness(population).err # Nil
       THEN Fail(GenerationError("failed to get best fitness", gen, BestFitness(population).err))
       ELSE /\ pc' = "select"
            /\ Call("PerformSelection")
            /\ lastBest' = Fittest(population)
            /\ UNCHANGED <<population, gen, loopErr, loopRet>>
    /\ UNCHANGED <<cfgVars, opVars, ctxErr, calls>>

AfterSelection ==
    /\ pc = "select"
    /\ sp = "ret"
    /\ IF stageErr # Nil
       THEN Fail(GenerationError("failed to perform selection", gen, stageErr))
       ELSE /\ population' = retPop
            /\ pc' = "crossover"
            /\ Call("PerformCrossover")
            /\ UNCHANGED <<gen, loopErr, loopRet, lastBest>>
    /\ UNCHANGED <<cfgVars, opVars, ctxErr, calls>>

AfterCrossover ==
    /\ pc = "crossover"
    /\ sp = "ret"
    /\ IF stageErr # Nil
       THEN Fail(GenerationError("failed to perform crossover", gen, stageErr))
       ELSE /\ population' = retPop
            /\ pc' = "mutate"
            /\ Call("PerformMutation")
            /\ UNCHANGED <<gen, loopErr, loopRet, lastBest>>
    /\ UNCHANGED <<cfgVars, opVars, ctxErr, calls>>

AfterMutation ==
    /\ pc = "mutate"
    /\ sp = "ret"
    /\ IF stageErr # Nil
       THEN Fail(GenerationError("failed to perform mutation", gen, stageErr))
       ELSE /\ gen' = gen + 1
            /\ pc' = "head"
            /\ stage' = "none"
            /\ sp' = "idle"
            /\ stageErr' = Nil
            /\ retPop' = NilPopulation
            /\ failLog' = <<>>
            /\ entryPop' = NilPopulation
            /\ entryCtx' = ""
            /\ GroupIdle
            /\ UNCHANGED <<population, loopErr, loopRet, lastBest, trace>>
    /\ UNCHANGED <<cfgVars, opVars, ctxErr, calls>>

AfterFinal ==
    /\ pc = "final"
    /\ sp = "ret"
    /\ IF stageErr # Nil
       THEN Fail(FinalError("failed to refresh fitness", stageErr))
       ELSE /\ pc' = "done"
            /\ loopRet' = population
            /\ loopErr' = Nil
            /\ stage' = "none"
            /\ sp' = "idle"
            /\ UNCHANGED <<population, gen, groupVars, stageErr, retPop, trace,
                           failLog, entryPop, entryCtx, lastBest>>
    /\ UNCHANGED <<cfgVars, opVars, ctxErr, calls>>

-----------------------------------------------------------------------------
(* Specifications *)

\* the chromosomes of the individuals a stage is called on: one that every
\* operator accepts, the empty one and one too short to mutate
SeedChromosomes == {<<>>, <<1>>, <<1, 2>>}

\* the chromosomes of the individuals Loop starts from
LoopChromosomes == SeedChromosomes \cup {<<2, 2>>}

\* worker counts a stage runs with: the default 1, an explicit limit of 2,
\* the sentinel -1 and 0
WorkerCounts == {DefaultWorkers, 2, Unbounded, 0}

\* the selectors NewTournamentSelector builds
TournamentSizes == {1, 2}

\* the tournament size of a Loop run: the candidates are drawn with
\* replacement, so every individual of the pool can win a tournament of any
\* size and PerformSelection has the same outcomes for every size
LoopTournamentSizes == {2}

EliteCounts == {0, 1}

\* mutation rates 0 and 1: with rate 0 the gate fires only on a draw of
\* exactly 0, with rate 1 on every draw
MutationRates == {0, RateScale}

SeqsUpTo(S, n) == UNION {[1..m -> S] : m \in 1..n}

EmptyPopulations == {NilPopulation, NilIndividuals, CreateEmptyPopulation}

\* populations as CreateSolution and CreatePopulation build them: fitness 0
SeedPopulations ==
    EmptyPopulations \cup
    {CreatePopulation(inds) :
        inds \in SeqsUpTo({Solution(c, 0) : c \in LoopChromosomes}, MaxPopSize)}

\* populations a stage is called on after earlier generations: each fitness
\* is left over from an evaluation of another chromosome
StaleFitness(c) == Len(c) + 4

StalePopulations ==
    EmptyPopulations \cup
    {CreatePopulation(inds) :
        inds \in SeqsUpTo({Solution(c, StaleFitness(c)) : c \in SeedChromosomes}, MaxPopSize)}

NoCalls == [evaluate |-> 0, mutate |-> 0, select |-> 0, crossover |-> 0]

InitCommon ==
    /\ ctxErr \in {"", "Canceled", "DeadlineExceeded"}
    /\ gen = 0
    /\ gctxErr = ""
    /\ gErr = Nil
    /\ sem = 0
    /\ next = 1
    /\ unit = <<>>
    /\ stageErr = Nil
    /\ retPop = NilPopulation
    /\ loopErr = Nil
    /\ loopRet = NilPopulation
    /\ calls = NoCalls
    /\ failLog = <<>>
    /\ entryPop = NilPopulation
    /\ entryCtx = ""
    /\ lastBest = {}
    /\ opOut = <<>>

\* NewGeneticAlgorithmExecutor with or without a worker count, followed by
\* Loop(ctx, generations)
Init ==
    /\ InitCommon
    /\ population \in SeedPopulations
    /\ initSize = Len(population.Individuals)
    /\ opIn = <<>>
    /\ numWorkers \in WorkerCounts
    /\ mutationRate \in MutationRates
    /\ tournamentSize \in LoopTournamentSizes
    /\ numElites \in EliteCounts
    /\ generations \in 0..MaxGenerations
    /\ pc = "head"
    /\ stage = "none"
    /\ sp = "idle"
    /\ trace = <<>>

ConcurrentStage ==
    \/ RefreshFitnessEntry
    \/ PerformMutationEntry
    \/ Go
    \/ \E i \in DOMAIN unit : EvaluateStart(i)
    \/ \E i \in DOMAIN unit : EvaluateStep(i)
    \/ \E i \in DOMAIN unit : MutateUnit(i)
    \/ \E i \in DOMAIN unit : UnitDone(i)
    \/ Wait
    \/ CancelCtx

LoopNext ==
    \/ LoopHead
    \/ AfterRefresh
    \/ AfterSelection
    \/ AfterCrossover
    \/ AfterMutation
    \/ AfterFinal

Next ==
    \/ ConcurrentStage
    \/ CancelCtxRunning
    \/ PerformSelection
    \/ PerformCrossover
    \/ LoopNext

\* a Loop run; the caller may cancel ctx at any moment of it
Spec == Init /\ [][Next]_vars

\* a stage method, or Select, called on its own on an executor built for it
StageInit ==
    /\ InitCommon
    /\ population \in StalePopulations
    /\ initSize = Len(population.Individuals)
    /\ opIn = <<>>
    /\ generations = 0
    /\ pc = "direct"
    /\ sp = "entry"
    /\ \/ /\ stage = "RefreshFitness"
          /\ numWorkers \in WorkerCounts
          /\ mutationRate = 0
          /\ tournamentSize = 1
          /\ numElites = 0
       \/ /\ stage = "PerformMutation"
          /\ numWorkers \in WorkerCounts
          /\ mutationRate \in MutationRates
          /\ tournamentSize = 1
          /\ numElites = 0
       \/ /\ stage \in {"PerformSelection", "Select"}
          /\ numWorkers = DefaultWorkers
          /\ mutationRate = 0
          /\ tournamentSize \in TournamentSizes
          /\ numElites \in EliteCounts
       \/ /\ stage = "PerformCrossover"
          /\ numWorkers = DefaultWorkers
          /\ mutationRate = 0
          /\ tournamentSize = 1
          /\ numElites = 0
    /\ trace = <<stage>>

StageNext ==
    \/ ConcurrentStage
    \/ CancelCtxRunning
    \/ PerformSelection
    \/ PerformCrossover
    \/ SelectCall

\* one stage run; the caller may cancel ctx at any moment of it
StageSpec == StageInit /\ [][StageNext]_vars

\* the steps of the program in a stage run: those of the control thread and
\* of the units it started; the caller's cancellation is not among them
StageSteps ==
    \/ RefreshFitnessEntry
    \/ PerformMutationEntry
    \/ Go
    \/ \E i \in DOMAIN unit : EvaluateStart(i)
    \/ \E i \in DOMAIN unit : EvaluateStep(i)
    \/ \E i \in DOMAIN unit : MutateUnit(i)
    \/ \E i \in DOMAIN unit : UnitDone(i)
    \/ Wait
    \/ PerformSelection
    \/ PerformCrossover
    \/ SelectCall

\* a stage run in which the control thread and the goroutines keep being
\* scheduled and every Evaluate and Mutate call returns
StageFairSpec == StageSpec /\ WF_vars(StageSteps)

Genes == 1..MaxGene

\* the chromosomes Crossover and Mutate are called on, the empty one included
Chromosomes == {<<>>} \cup SeqsUpTo(Genes, MaxChromLen)

\* the chromosomes Evaluate is called on: the bounded ones and those of
\* TestSimpleSumFitnessEvaluator_Int
EvaluateChromosomes ==
    Chromosomes \cup {<<1, 2, 3, 4, 5>>, <<-1, -2, -3>>, <<10, -5, 3, -2>>, <<0, 0, 0>>}

\* what a caller can pass to Crossover: two slices, each of which may be
\* nil, and a nil slice holds no genes
CrossoverArgs ==
    {a \in [parent1 : Chromosomes, parent2 : Chromosomes,
            parent1Nil : BOOLEAN, parent2Nil : BOOLEAN] :
        /\ a.parent1Nil => a.parent1 = <<>>
        /\ a.parent2Nil => a.parent2 = <<>>}

\* what a caller can pass to Mutate
MutateArgs ==
    {ChromosomeArg(TRUE, FALSE, <<>>), ChromosomeArg(FALSE, TRUE, <<>>)}
        \cup {ChromosomeArg(FALSE, FALSE, c) : c \in Chromosomes}

\* evaluated individuals Select is called on: two chromosomes tie on fitness
ScoredChromosomes == {<<1, 1>>, <<1, 2>>, <<2, 1>>, <<2, 2>>}

ScoredPopulations ==
    EmptyPopulations \cup
    {CreatePopulation(inds) :
        inds \in SeqsUpTo({Solution(c, Evaluate(c, "").fitness) : c \in ScoredChromosomes},
                          MaxPopSize)}

\* tournament sizes for one tournament on its own
DirectTournamentSizes == 1..MaxPopSize

\* elite counts NewTournamentSelector accepts, up to counts Select rejects
DirectEliteCounts == 0..(MaxPopSize - 1)

\* Select, Crossover or Mutate called on its own
OperatorInit ==
    /\ InitCommon
    /\ numWorkers = DefaultWorkers
    /\ generations = 0
    /\ pc = "direct"
    /\ sp = "entry"
    /\ \/ /\ stage = "Select"
          /\ population \in ScoredPopulations
          /\ opIn = <<>>
          /\ mutationRate = 0
          /\ tournamentSize \in TournamentSizes
          /\ numElites \in DirectEliteCounts
          /\ NewTournamentSelector(tournamentSize, numElites) = Nil
       \/ /\ stage = "Tournament"
          /\ population \in ScoredPopulations \ EmptyPopulations
          /\ mutationRate = 0
          /\ tournamentSize \in DirectTournamentSizes
          /\ numElites = 0
          /\ opIn \in [draws : [1..tournamentSize -> DOMAIN population.Individuals]]
       \/ /\ stage = "Crossover"
          /\ population = NilPopulation
          /\ opIn \in CrossoverArgs
          /\ mutationRate = 0
          /\ tournamentSize = 1
          /\ numElites = 0
       \/ /\ stage = "BestSolution"
          /\ population \in ScoredPopulations
          /\ opIn = <<>>
          /\ mutationRate = 0
          /\ tournamentSize = 1
          /\ numElites = 0
       \/ /\ stage = "Evaluate"
          /\ population = NilPopulation
          /\ opIn \in [chromosome : EvaluateChromosomes]
          /\ mutationRate = 0
          /\ tournamentSize = 1
          /\ numElites = 0
       \/ /\ stage = "Mutate"
          /\ population = NilPopulation
          /\ opIn \in [chromosome : MutateArgs]
          /\ mutationRate \in MutationRates
          /\ tournamentSize = 1
          /\ numElites = 0
    /\ initSize = Len(population.Individuals)
    /\ trace = <<stage>>

OperatorNext ==
    \/ SelectCall
    \/ TournamentCall
    \/ CrossoverCall
    \/ MutateCall
    \/ EvaluateCall
    \/ BestCall

OperatorSpec == OperatorInit /\ [][OperatorNext]_vars

-----------------------------------------------------------------------------
(* Properties of Loop *)

Pipeline == <<"RefreshFitness", "PerformSelection", "PerformCrossover", "PerformMutation">>

\* the stage calls of a successful Loop over g generations
ExpectedStages(g) ==
    [i \in 1..(Len(Pipeline) * g + 1) |-> Pipeline[((i - 1) % Len(Pipeline)) + 1]]

IsPrefix(s, t) == Len(s) <= Len(t) /\ SubSeq(t, 1, Len(s)) = s

\* C1: the stages Loop has called are at every moment a prefix of
\* (RefreshFitness, PerformSelection, PerformCrossover, PerformMutation)
\* repeated generations times and followed by one RefreshFitness; when Loop
\* returns successfully they are that whole sequence, and for the N
\* individuals the executor was built with the evaluator was invoked
\* N * (generations + 1) times, the mutator N * generations times and the
\* selector generations times.
LoopStageSequence ==
    /\ IsPrefix(trace, ExpectedStages(generations))
    /\ pc = "done" =>
          /\ trace = ExpectedStages(generations)
          /\ calls.evaluate = initSize * (generations + 1)
          /\ calls.mutate = initSize * generations
          /\ calls.select = generations

\* a successful run of several generations over several individuals
LoopStageSequenceWitness ==
    /\ pc = "done"
    /\ generations >= 2
    /\ initSize >= 2

\* Loop has returned because a stage failed, and not because bar.Add did
StageFailed == pc = "failed" /\ loopErr # ErrProgressBar

\* the stage whose failure made Loop return
FailedStage == trace[Len(trace)]

\* C2: once a stage has failed Loop takes no further step (no later stage,
\* no later generation, no retry); it has returned a nil population and a
\* non-nil error whose wrap chain ends in the error the failing stage
\* returned and, when units of the stage failed, in the error of the unit
\* that failed first; the failing stage is the last one called, in the
\* generation the loop was in.
LoopFailureStops ==
    /\ [](StageFailed =>
            /\ loopRet.isNil
            /\ loopErr # Nil
            /\ stageErr # Nil
            /\ Unwraps(Tail(loopErr), stageErr)
            /\ failLog # <<>> => Unwraps(Tail(stageErr), failLog[1].err)
            /\ stage = "none"
            /\ Len(trace) > Len(Pipeline) * gen
            /\ Len(trace) <= Len(Pipeline) * (gen + 1)
            /\ IsPrefix(trace, ExpectedStages(generations)))
    /\ [][pc # "failed"]_vars

\* a failure in a later generation in which several units failed
LoopFailureStopsWitness ==
    /\ StageFailed
    /\ gen >= 1
    /\ Len(failLog) >= 2
    /\ FailedStage = "PerformMutation"

-----------------------------------------------------------------------------
(* Properties of the concurrent stages *)

Returned(s) == stage = s /\ sp = "ret"

\* C3: with a worker limit numWorkers >= 1, the units of RefreshFitness or
\* PerformMutation that are in flight at the same time never number more
\* than numWorkers.
WorkerLimitRespected ==
    numWorkers >= 1 => Cardinality(InFlight(unit)) <= numWorkers

\* the limit is binding: two units in flight under a limit of two while a
\* third individual waits to be dispatched
WorkerLimitRespectedWitness ==
    /\ numWorkers = 2
    /\ Cardinality(InFlight(unit)) = 2
    /\ next <= Len(unit)

\* C4: when units of RefreshFitness failed, the stage returns the error of
\* the unit whose failure was recorded first, wrapped in one
\* FitnessEvaluationError, and nothing of the later failures.
FirstFailureReturned ==
    (Returned("RefreshFitness") /\ failLog # <<>>) =>
        /\ stageErr = NewFitnessEvaluationError("failed to evaluate fitness", failLog[1].err)
        /\ stageErr[1].kind = "FitnessEvaluationError"
        /\ Unwraps(stageErr, failLog[1].err)

\* a later unit failed with another error than the first: the cancellation
\* the first failure caused
FirstFailureReturnedWitness ==
    /\ Returned("RefreshFitness")
    /\ Len(failLog) >= 2
    /\ ErrorsIs(failLog[1].err, "InvalidChromosomeError")
    /\ ErrorsIs(failLog[2].err, "Canceled")

\* C5: when RefreshFitness has returned, each individual has the chromosome
\* it had at entry and its Fitness is the result of its own Evaluate call if
\* that call succeeded and the value it had at entry otherwise; and once a
\* unit has returned, no later step changes its individual.
FitnessOwnOrPrevious ==
    /\ [](Returned("RefreshFitness") /\ ~PopulationEmpty(entryPop) =>
            /\ Len(population.Individuals) = Len(entryPop.Individuals)
            /\ \A i \in DOMAIN unit :
                  /\ population.Individuals[i].Chromosome = entryPop.Individuals[i].Chromosome
                  /\ population.Individuals[i].Fitness =
                        IF unit[i].err = Nil
                        THEN Evaluate(entryPop.Individuals[i].Chromosome, "").fitness
                        ELSE entryPop.Individuals[i].Fitness)
    /\ [][stage = "RefreshFitness" /\ sp = "run" =>
            \A i \in DOMAIN unit :
                unit[i].phase \in {"returned", "done"} =>
                    population'.Individuals[i] = population.Individuals[i]]_vars

\* a unit stored a new fitness and another unit failed
FitnessOwnOrPreviousWitness ==
    /\ Returned("RefreshFitness")
    /\ \E i, j \in DOMAIN unit :
          /\ unit[i].err = Nil
          /\ population.Individuals[i].Fitness # entryPop.Individuals[i].Fitness
          /\ unit[j].err # Nil
          /\ i < j

\* C6: no unit is in flight unless RefreshFitness or PerformMutation is
\* between its dispatch and its return, so none is at the moment either
\* stage returns, with or without an error, nor while PerformSelection or
\* PerformCrossover runs; every unit of a returned stage has finished; the
\* population changes after the return only by Loop's own assignment of a
\* stage's output; and PerformMutation is entered with the output of
\* PerformCrossover as the population and no unit started.
StagesJoinUnits ==
    /\ [](/\ InFlight(unit) # {} => (stage \in {"RefreshFitness", "PerformMutation"} /\ sp = "run")
          /\ (stage \in {"RefreshFitness", "PerformMutation"} /\ sp = "ret") =>
                \A i \in DOMAIN unit : unit[i].phase = "done")
    /\ [][/\ (sp = "ret" /\ population' # population) =>
                (pc \in {"select", "crossover"} /\ population' = retPop)
          /\ (pc = "crossover" /\ pc' = "mutate") =>
                (population' = retPop /\ InFlight(unit') = {} /\ calls'.mutate = calls.mutate)]_vars

\* a stage returned with an error after units of it had run, and Loop went on
\* to fail
StagesJoinUnitsWitness ==
    /\ StageFailed
    /\ FailedStage = "RefreshFitness"
    /\ gen >= 1
    /\ Len(unit) >= 2
    /\ \A i \in DOMAIN unit : unit[i].phase = "done"

-----------------------------------------------------------------------------
(* Cancellation before dispatch *)

\* the error the reference operators return when they find ctx cancelled
IsCancellation(err, ctx) == err # Nil /\ ErrorsIs(err, ctx) /\ err[1].msg = "context cancelled"

\* C7: when RefreshFitness was entered on a non-empty population with ctx
\* already cancelled and has returned, every individual's Evaluate call was
\* made and failed with a cancellation error, the population is as it was
\* at entry, and the stage's error lets the cause of ctx (context.Canceled
\* or context.DeadlineExceeded) be tested.
CancelledRefreshFailsEveryUnit ==
    (Returned("RefreshFitness") /\ entryCtx # "" /\ ~PopulationEmpty(entryPop)) =>
        /\ calls.evaluate = Len(entryPop.Individuals)
        /\ \A i \in DOMAIN unit :
              /\ IsCancellation(unit[i].err, entryCtx)
              /\ ErrorsIs(unit[i].err, "FitnessEvaluationError")
        /\ population = entryPop
        /\ stageErr # Nil
        /\ ErrorsIs(stageErr, entryCtx)

\* a deadline that passed before the stage ran on several individuals, one
\* of them with a chromosome Evaluate would reject
CancelledRefreshFailsEveryUnitWitness ==
    /\ Returned("RefreshFitness")
    /\ entryCtx = "DeadlineExceeded"
    /\ Len(entryPop.Individuals) >= 2
    /\ \E i \in DOMAIN unit : entryPop.Individuals[i].Chromosome = <<>>
    /\ \E i \in DOMAIN unit : entryPop.Individuals[i].Fitness # 0

\* C8 as stated: when PerformMutation was entered with ctx already cancelled
\* and has returned, the Mutate call of every individual whose chromosome
\* has at least 2 genes failed with a cancellation error, whatever the
\* mutation rate, and the stage returned an error.
CancelledMutationFailsEveryUnit ==
    (Returned("PerformMutation") /\ entryCtx # "" /\ ~PopulationEmpty(entryPop)) =>
        /\ \A i \in DOMAIN unit :
              Len(entryPop.Individuals[i].Chromosome) >= 2 =>
                  IsCancellation(unit[i].err, entryCtx)
        /\ stageErr # Nil

\* C8 as amended: under a ctx cancelled before dispatch, the Mutate call on
\* a chromosome of at least 2 genes either fails with a cancellation error
\* or, having drawn above the mutation rate, returns nil; with mutation
\* rate 1 every such call fails; no chromosome changes; and the stage
\* returns an error exactly when some call failed.
CancelledMutationFailsGatedUnits ==
    (Returned("PerformMutation") /\ entryCtx # "" /\ ~PopulationEmpty(entryPop)) =>
        /\ calls.mutate = Len(entryPop.Individuals)
        /\ \A i \in DOMAIN unit :
              Len(entryPop.Individuals[i].Chromosome) >= 2 =>
                  /\ unit[i].err = Nil \/ IsCancellation(unit[i].err, entryCtx)
                  /\ mutationRate >= RateScale => IsCancellation(unit[i].err, entryCtx)
        /\ population = entryPop
        /\ stageErr # Nil <=> \E i \in DOMAIN unit : unit[i].err # Nil

\* under mutation rate 0 one call drew 0 and failed, another drew above the
\* rate and returned nil
CancelledMutationFailsGatedUnitsWitness ==
    /\ Returned("PerformMutation")
    /\ entryCtx # ""
    /\ mutationRate = 0
    /\ \E i, j \in DOMAIN unit :
          /\ Len(entryPop.Individuals[i].Chromosome) >= 2
          /\ Len(entryPop.Individuals[j].Chromosome) >= 2
          /\ unit[i].err = Nil
          /\ IsCancellation(unit[j].err, entryCtx)

-----------------------------------------------------------------------------
(* Empty populations *)

\* C9: RefreshFitness, PerformSelection, PerformCrossover, PerformMutation
\* and Select, entered on a nil population, on one whose Individuals is nil
\* or on one without individuals, return an error that matches
\* ErrPopulationEmpty, the same whichever of the three it is, and no
\* population; no operator has been invoked and the executor's population
\* is untouched.
EmptyPopulationRejected ==
    (sp = "ret" /\ entryPop \in EmptyPopulations) =>
        /\ ErrorsIs(stageErr, "ErrPopulationEmpty")
        /\ stageErr =
              CASE stage \in {"RefreshFitness", "PerformMutation", "PerformSelection"} ->
                       ErrPopulationEmpty
                [] stage = "PerformCrossover" ->
                       NewCrossoverError("cannot perform crossover on empty population",
                                         ErrPopulationEmpty)
                [] stage = "Select" ->
                       NewSelectionError("cannot perform selection on nil or empty population",
                                         ErrPopulationEmpty)
        /\ retPop.isNil
        /\ calls = NoCalls
        /\ unit = <<>>
        /\ population = entryPop

\* Select returned on a population whose Individuals is an empty, non-nil slice
EmptyPopulationRejectedWitness ==
    /\ sp = "ret"
    /\ stage = "Select"
    /\ entryPop = CreateEmptyPopulation

-----------------------------------------------------------------------------
(* The generation index in Loop's errors *)

\* C10 as stated: every error Loop returns for a failed stage carries the
\* index of the generation the failure occurred in.
EveryFailureCarriesGeneration ==
    StageFailed => loopErr[1].gen = <<gen>>

\* C10 as amended: the error Loop returns for a stage that failed inside
\* the generation loop carries the index of the generation that stage call
\* belongs to; the error it returns for the refresh after the last
\* generation carries no index.
LoopFailureCarriesGeneration ==
    StageFailed =>
        IF Len(trace) = Len(ExpectedStages(generations))
        THEN /\ loopErr[1].gen = <<>>
             /\ loopErr[1].msg = "failed to refresh fitness"
        ELSE /\ loopErr[1].gen = <<(Len(trace) - 1) \div Len(Pipeline)>>
             /\ (Len(trace) - 1) \div Len(Pipeline) < generations

\* a refresh failed inside the second generation
LoopFailureCarriesGenerationWitness ==
    /\ StageFailed
    /\ FailedStage = "RefreshFitness"
    /\ loopErr[1].gen = <<1>>

-----------------------------------------------------------------------------
(* The population Loop leaves behind *)

\* chromosome b is chromosome a with two of its positions exchanged
IsSwapOf(b, a) ==
    \E x, y \in DOMAIN a : x # y /\ b = Swap(a, x, y)

\* C11 as stated: when Loop has returned an error for a failed selection,
\* crossover or mutation, the executor's population is not nil and is the
\* population the failed stage was entered with, which is the output of the
\* stage before it.
FailedLoopKeepsLastOutput ==
    (StageFailed /\ FailedStage # "RefreshFitness") =>
        /\ ~population.isNil
        /\ population = entryPop

\* C11 as amended: Loop assigns a stage's output to the executor only when
\* the stage succeeded, so on an error the executor holds the population the
\* failed stage was entered with, with every one of its individuals, and
\* nil only if the executor was built with nil; but what the failed stage
\* did to that population in place stays: after a failed selection nothing,
\* after a failed crossover the individuals are in shuffled order, after a
\* failed mutation the chromosomes of units that had succeeded may have two
\* genes exchanged, after a failed refresh the units that had succeeded
\* have stored their fitness. When it is bar.Add that failed, at the head of
\* a generation, the executor holds the population the generation before left,
\* with every one of its individuals.
FailedLoopKeepsEnteredPopulation ==
    /\ [](pc = "failed" => Len(population.Individuals) = initSize)
    /\ [](StageFailed =>
            /\ Len(population.Individuals) = initSize
            /\ population.isNil = entryPop.isNil
            /\ population.indsNil = entryPop.indsNil
            /\ population.isNil => trace = <<"RefreshFitness">>
            /\ FailedStage = "PerformSelection" => population = entryPop
            /\ FailedStage = "PerformCrossover" =>
                  \E perm \in Permutations(initSize) :
                      population.Individuals = Permute(entryPop.Individuals, perm)
            /\ FailedStage = "PerformMutation" =>
                  \A i \in DOMAIN unit :
                      LET a == entryPop.Individuals[i]
                          b == population.Individuals[i]
                      IN  /\ b.Fitness = a.Fitness
                          /\ \/ b.Chromosome = a.Chromosome
                             \/ unit[i].err = Nil /\ IsSwapOf(b.Chromosome, a.Chromosome)
            /\ FailedStage = "RefreshFitness" =>
                  \A i \in 1..initSize :
                      LET a == entryPop.Individuals[i]
                          b == population.Individuals[i]
                      IN  /\ b.Chromosome = a.Chromosome
                          /\ \/ b.Fitness = a.Fitness
                             \/ /\ unit[i].err = Nil
                                /\ b.Fitness = Evaluate(a.Chromosome, "").fitness)
    /\ [][/\ pc' = "failed" => population' = population
          /\ (pc = "select" /\ pc' = "crossover") => population' = retPop
          /\ (pc = "crossover" /\ pc' = "mutate") => population' = retPop]_vars

\* a mutation failed after another unit had exchanged two genes
FailedLoopKeepsEnteredPopulationWitness ==
    /\ StageFailed
    /\ FailedStage = "PerformMutation"
    /\ \E i \in DOMAIN unit :
          /\ unit[i].err = Nil
          /\ population.Individuals[i].Chromosome # entryPop.Individuals[i].Chromosome

\* C12: when Loop has returned successfully, the Fitness of every individual
\* of the returned population is what the evaluator computes for the
\* chromosome that individual now has.
ReturnedFitnessIsFresh ==
    pc = "done" =>
        /\ loopRet = population
        /\ ~PopulationEmpty(loopRet)
        /\ \A i \in DOMAIN loopRet.Individuals :
              LET r == Evaluate(loopRet.Individuals[i].Chromosome, "")
              IN  r.err = Nil /\ loopRet.Individuals[i].Fitness = r.fitness

\* a run of two generations returned individuals of different fitness, so
\* crossover offspring that started at 0 were evaluated
ReturnedFitnessIsFreshWitness ==
    /\ pc = "done"
    /\ generations >= 2
    /\ \E i, j \in DOMAIN loopRet.Individuals :
          loopRet.Individuals[i].Fitness < loopRet.Individuals[j].Fitness

-----------------------------------------------------------------------------
(* Select called on its own *)

SelectReturned == stage = "Select" /\ sp = "ret" /\ stageErr = Nil

Injective(f) == \A a, b \in DOMAIN f : f[a] = f[b] => a = b

\* C13: when Select succeeds with numElites = k > 0, its output holds, in its
\* first k places, k different individuals of the input with their chromosome
\* and fitness, and no other individual of the input has a fitness above
\* that of any of them
ElitesPreserved ==
    (SelectReturned /\ numElites > 0) =>
        \E f \in [1..numElites -> DOMAIN entryPop.Individuals] :
            /\ Injective(f)
            /\ \A i \in 1..numElites :
                  /\ retPop.Individuals[i].Chromosome = entryPop.Individuals[f[i]].Chromosome
                  /\ retPop.Individuals[i].Fitness = entryPop.Individuals[f[i]].Fitness
                  /\ \A j \in DOMAIN entryPop.Individuals :
                        (\A h \in 1..numElites : f[h] # j) =>
                            entryPop.Individuals[j].Fitness <= entryPop.Individuals[f[i]].Fitness

\* two elites taken from an input whose fittest individual is not its first
ElitesPreservedWitness ==
    /\ SelectReturned
    /\ numElites = 2
    /\ Len(entryPop.Individuals) = 3
    /\ entryPop.Individuals[1].Fitness < entryPop.Individuals[2].Fitness
    /\ entryPop.Individuals[2].Fitness < entryPop.Individuals[3].Fitness
    /\ retPop.Individuals[1] = entryPop.Individuals[3]
    /\ retPop.Individuals[2] = entryPop.Individuals[2]

\* C14: when Select succeeds, the tournament size is at least 1, the elite
\* count is at least 0 and below the size of the input, and the output has as
\* many individuals as the input
SelectKeepsSize ==
    SelectReturned =>
        /\ tournamentSize >= 1
        /\ numElites >= 0
        /\ numElites < Len(entryPop.Individuals)
        /\ ~retPop.isNil
        /\ Len(retPop.Individuals) = Len(entryPop.Individuals)

\* three individuals selected with two elites and tournaments of two
SelectKeepsSizeWitness ==
    /\ SelectReturned
    /\ tournamentSize = 2
    /\ numElites = 2
    /\ Len(entryPop.Individuals) = 3
    /\ Len(retPop.Individuals) = 3

\* C15: the chromosome of every individual Select returns has a backing
\* array allocated for it: none is an array of the input, and no two
\* returned individuals share one
SelectedHaveOwnStorage ==
    SelectReturned =>
        /\ DOMAIN opOut.store = DOMAIN retPop.Individuals
        /\ \A i \in DOMAIN opOut.store :
              /\ opOut.store[i].origin = "output"
              /\ \A j \in DOMAIN entryPop.Individuals : opOut.store[i] # InputStorage(j)
              /\ \A j \in DOMAIN opOut.store : i # j => opOut.store[i] # opOut.store[j]

\* two returned individuals are copies of one and the same input individual
SelectedHaveOwnStorageWitness ==
    /\ SelectReturned
    /\ \E i, j \in DOMAIN opOut.store :
          /\ i # j
          /\ opOut.store[i].genesOf = opOut.store[j].genesOf

-----------------------------------------------------------------------------
(* Crossover called on its own *)

Range(s) == {s[i] : i \in DOMAIN s}

\* how many times gene g occurs in chromosome s
Count(s, g) == Cardinality({i \in DOMAIN s : s[i] = g})

\* C16: for parents of one length n >= 2 Crossover succeeds with two
\* offspring of length n, and every gene occurs in the two offspring together
\* as many times as in the two parents together
CrossoverConservesGenes ==
    (/\ stage = "Crossover"
     /\ sp = "ret"
     /\ Len(opIn.parent1) = Len(opIn.parent2)
     /\ Len(opIn.parent1) >= 2) =>
        /\ stageErr = Nil
        /\ Len(opOut.offspring1) = Len(opIn.parent1)
        /\ Len(opOut.offspring2) = Len(opIn.parent1)
        /\ \A g \in Range(opIn.parent1) \cup Range(opIn.parent2)
                    \cup Range(opOut.offspring1) \cup Range(opOut.offspring2) :
              Count(opOut.offspring1, g) + Count(opOut.offspring2, g)
                  = Count(opIn.parent1, g) + Count(opIn.parent2, g)

\* parents of three genes crossed so that each offspring differs from both
CrossoverConservesGenesWitness ==
    /\ stage = "Crossover"
    /\ sp = "ret"
    /\ stageErr = Nil
    /\ Len(opIn.parent1) = 3
    /\ Len(opIn.parent2) = 3
    /\ opOut.point = 2
    /\ opOut.offspring1 \notin {opIn.parent1, opIn.parent2}
    /\ opOut.offspring2 \notin {opIn.parent1, opIn.parent2}

-----------------------------------------------------------------------------
(* Mutate called on its own *)

\* Mutate returned nil on a chromosome of two genes or more after its gate
\* let the call through (rand.Float64() > mutationRate was false)
MutateFired ==
    /\ stage = "Mutate"
    /\ sp = "ret"
    /\ Len(opIn.chromosome.genes) >= 2
    /\ stageErr = Nil
    /\ ~(opOut.draw > mutationRate)

\* the positions at which chromosomes a and b of one length differ
Differing(a, b) == {i \in DOMAIN a : a[i] # b[i]}

SameGenes(a, b) == \A g \in Range(a) \cup Range(b) : Count(a, g) = Count(b, g)

\* C17 as stated: when Mutate fires and succeeds on a chromosome of two
\* genes or more, exactly two positions differ from the input and the
\* multiset of genes is unchanged
MutateChangesTwoPositions ==
    MutateFired =>
        /\ Cardinality(Differing(opIn.chromosome.genes, opOut.chromosome.genes)) = 2
        /\ SameGenes(opIn.chromosome.genes, opOut.chromosome.genes)

\* C17 as amended: when Mutate fires and succeeds on a chromosome of two
\* genes or more, the genes at two distinct positions are exchanged: the
\* chromosome differs from the input at exactly these two positions when the
\* two genes differ and nowhere when they are equal; the length and the
\* multiset of genes are unchanged
MutateExchangesTwoPositions ==
    MutateFired =>
        /\ opOut.swapped
        /\ Len(opOut.chromosome.genes) = Len(opIn.chromosome.genes)
        /\ SameGenes(opIn.chromosome.genes, opOut.chromosome.genes)
        /\ \E x, y \in DOMAIN opIn.chromosome.genes :
              /\ x # y
              /\ opOut.chromosome.genes = Swap(opIn.chromosome.genes, x, y)
              /\ Differing(opIn.chromosome.genes, opOut.chromosome.genes) =
                    IF opIn.chromosome.genes[x] # opIn.chromosome.genes[y]
                    THEN {x, y} ELSE {}

\* Mutate exchanged two equal genes: no position differs from the input
MutateExchangesTwoPositionsWitness ==
    /\ MutateFired
    /\ opOut.swapped
    /\ Len(opIn.chromosome.genes) = 3
    /\ Range(opIn.chromosome.genes) = {1, 2}
    /\ Differing(opIn.chromosome.genes, opOut.chromosome.genes) = {}

\* C18: on a nil chromosome and on one of fewer than two genes Mutate
\* returns a MutationError that wraps an InvalidChromosomeError and leaves
\* the chromosome as it was, whatever the rate, the draw of the gate and the
\* state of the context
MutateRejectsShortChromosome ==
    (stage = "Mutate" /\ sp = "ret" /\ Len(opIn.chromosome.genes) < 2) =>
        /\ stageErr # Nil
        /\ Len(stageErr) = 2
        /\ stageErr[1].kind = "MutationError"
        /\ stageErr[2].kind = "InvalidChromosomeError"
        /\ opOut.chromosome = opIn.chromosome
        /\ ~opOut.swapped

\* a chromosome of one gene rejected under a cancelled context with rate 0
\* and a draw above the rate
MutateRejectsShortChromosomeWitness ==
    /\ stage = "Mutate"
    /\ sp = "ret"
    /\ opIn.chromosome.genes = <<1>>
    /\ mutationRate = 0
    /\ opOut.draw > mutationRate
    /\ ctxErr = "Canceled"
    /\ stageErr # Nil

\* a nil chromosome pointer rejected with rate 1 and a live context
MutateRejectsNilWitness ==
    /\ stage = "Mutate"
    /\ sp = "ret"
    /\ opIn.chromosome.ptrNil
    /\ mutationRate = RateScale
    /\ ctxErr = ""
    /\ stageErr # Nil

-----------------------------------------------------------------------------
(* The offspring population of PerformCrossover *)

\* C19: when PerformCrossover succeeds on N >= 1 individuals it returns N
\* individuals; the executor's individuals are the entered ones in shuffled
\* order; for odd N the last of the shuffled individuals is the last of the
\* output, chromosome and fitness as they were; the other outputs are, two
\* by two, the offspring Crossover makes of consecutive shuffled pairs
CrossoverStageKeepsSize ==
    (stage = "PerformCrossover" /\ sp = "ret" /\ stageErr = Nil) =>
        LET entered == entryPop.Individuals
            shuffled == population.Individuals
            out == retPop.Individuals
            n == Len(entered)
        IN  /\ n >= 1
            /\ ~retPop.isNil
            /\ Len(out) = n
            /\ \E perm \in Permutations(n) : shuffled = Permute(entered, perm)
            /\ n % 2 = 1 =>
                  /\ out[n].Chromosome = shuffled[n].Chromosome
                  /\ out[n].Fitness = shuffled[n].Fitness
            /\ \A j \in 1..(n \div 2) :
                  \E point \in CrossoverPoints(Len(shuffled[2 * j - 1].Chromosome)) :
                      LET r == Crossover(shuffled[2 * j - 1].Chromosome,
                                         shuffled[2 * j].Chromosome, point)
                      IN  /\ r.err = Nil
                          /\ out[2 * j - 1].Chromosome = r.offspring1
                          /\ out[2 * j].Chromosome = r.offspring2

\* three individuals: the shuffle moved another individual to the last
\* place, which passes through with its fitness, and the pair's first
\* offspring is neither of its parents
CrossoverStageKeepsSizeWitness ==
    /\ stage = "PerformCrossover"
    /\ sp = "ret"
    /\ stageErr = Nil
    /\ Len(entryPop.Individuals) = 3
    /\ population.Individuals[3] # entryPop.Individuals[3]
    /\ retPop.Individuals[3] = population.Individuals[3]
    /\ retPop.Individuals[3].Fitness # 0
    /\ retPop.Individuals[1].Chromosome \notin
          {population.Individuals[1].Chromosome, population.Individuals[2].Chromosome}

-----------------------------------------------------------------------------
(* The error of a failed PerformMutation *)

\* C20: when a unit of PerformMutation failed, the error the stage returns
\* is recognised as a mutation failure and not as a fitness-evaluation
\* failure, and unwraps to the error of the unit that failed first
MutationFailureIsMutationStage ==
    (Returned("PerformMutation") /\ failLog # <<>>) =>
        /\ stageErr # Nil
        /\ ErrorsIs(stageErr, "MutationError")
        /\ ~ErrorsIs(stageErr, "FitnessEvaluationError")
        /\ Unwraps(stageErr, failLog[1].err)

-----------------------------------------------------------------------------
(* The unbounded worker count *)

Concurrent == stage \in {"RefreshFitness", "PerformMutation"} /\ sp = "run"

\* C21: with the worker count -1 no limit is installed: while individuals
\* remain to be dispatched the dispatch loop can always take its next step,
\* however many units are in flight, and no worker slot is ever counted
UnboundedNeverWaits ==
    (Concurrent /\ numWorkers = Unbounded) =>
        /\ sem = 0
        /\ next <= N => HasSlot(numWorkers, sem)
        /\ next <= N => ENABLED Go

\* all units of a population of MaxPopSize individuals in flight at once
UnboundedNeverWaitsWitness ==
    /\ Concurrent
    /\ numWorkers = Unbounded
    /\ N = MaxPopSize
    /\ InFlight(unit) = DOMAIN unit

-----------------------------------------------------------------------------
(* Units started after the cancellation *)

\* C22 as stated: once the stage's context is cancelled, no unit invokes the
\* evaluator or the mutator any more
NoInvocationAfterCancel ==
    [][(Concurrent /\ gctxErr # "") => calls' = calls]_vars

\* C22 as amended: the stages start every unit and every unit invokes its
\* operator, also after the stage's context was cancelled; a unit started
\* then changes no fitness and no chromosome and its operator returns within
\* its first checks: Evaluate returns a cancellation error, Mutate returns
\* its validation error on fewer than two genes and otherwise nil or a
\* cancellation error
StartedAfterCancelChangeNothing ==
    /\ []((stage \in {"RefreshFitness", "PerformMutation"} /\ sp = "ret"
              /\ ~PopulationEmpty(entryPop)) =>
             calls.evaluate + calls.mutate = Len(entryPop.Individuals))
    /\ [][(Concurrent /\ gctxErr # "") =>
             \A i \in DOMAIN unit :
                 (unit[i].phase = "spawned" /\ unit'[i].phase # "spawned") =>
                       /\ population' = population
                       /\ calls' # calls
                       /\ unit'[i].phase = "returned"
                       /\ stage = "RefreshFitness" => IsCancellation(unit'[i].err, gctxErr)
                       /\ stage = "PerformMutation" =>
                             IF Len(population.Individuals[i].Chromosome) < 2
                             THEN /\ ErrorsIs(unit'[i].err, "MutationError")
                                  /\ ErrorsIs(unit'[i].err, "InvalidChromosomeError")
                             ELSE \/ unit'[i].err = Nil
                                  \/ IsCancellation(unit'[i].err, gctxErr)]_vars

\* under a limit of one worker and a caller that never cancels, the first
\* unit failed and the two units after it, started after that failure,
\* invoked Evaluate all the same and failed too
StartedAfterCancelChangeNothingWitness ==
    /\ Returned("RefreshFitness")
    /\ numWorkers = 1
    /\ ctxErr = ""
    /\ Len(entryPop.Individuals) = 3
    /\ calls.evaluate = 3
    /\ Len(failLog) = 3
    /\ failLog[1].index = 1
    /\ ~IsCancellation(failLog[1].err, "Canceled")
    /\ IsCancellation(failLog[2].err, "Canceled")

-----------------------------------------------------------------------------
(* What a successful RefreshFitness stores *)

\* C23: whatever the worker limit and the interleaving of the units, a step
\* of RefreshFitness changes at most one individual, the one of the unit
\* that returns in this step, and only its Fitness; and when the stage has
\* returned nil every individual has its chromosome of the entry and the
\* fitness Evaluate computes from it
RefreshStoresOwnSlot ==
    /\ []((Returned("RefreshFitness") /\ stageErr = Nil) =>
             /\ Len(population.Individuals) = Len(entryPop.Individuals)
             /\ \A i \in DOMAIN population.Individuals :
                   /\ population.Individuals[i].Chromosome = entryPop.Individuals[i].Chromosome
                   /\ Evaluate(entryPop.Individuals[i].Chromosome, "").err = Nil
                   /\ population.Individuals[i].Fitness =
                          Evaluate(entryPop.Individuals[i].Chromosome, "").fitness)
    /\ [][(stage = "RefreshFitness" /\ sp = "run") =>
             \A i \in DOMAIN population.Individuals :
                 population'.Individuals[i] # population.Individuals[i] =>
                     /\ i \in InFlight(unit)
                     /\ unit'[i].phase = "returned"
                     /\ unit'[i].err = Nil
                     /\ population'.Individuals[i].Chromosome =
                            population.Individuals[i].Chromosome
                     /\ \A j \in DOMAIN population.Individuals :
                           j # i => population'.Individuals[j] = population.Individuals[j]]_vars

\* three individuals refreshed by two workers: every stale fitness replaced
RefreshStoresOwnSlotWitness ==
    /\ Returned("RefreshFitness")
    /\ stageErr = Nil
    /\ numWorkers = 2
    /\ Len(population.Individuals) = 3
    /\ \A i \in DOMAIN population.Individuals :
          population.Individuals[i].Fitness # entryPop.Individuals[i].Fitness
    /\ population.Individuals[1].Fitness # population.Individuals[2].Fitness

-----------------------------------------------------------------------------
(* Select with as many elites as individuals *)

\* C24: a selector that NewTournamentSelector built without error, called
\* on a population with no more individuals than its numElites, returns a
\* SelectionError and no population
TooManyElitesRejected ==
    (stage = "Select" /\ sp = "ret" /\ numElites >= Len(entryPop.Individuals)) =>
        /\ NewTournamentSelector(tournamentSize, numElites) = Nil
        /\ stageErr # Nil
        /\ stageErr[1].kind = "SelectionError"
        /\ retPop = NilPopulation
        /\ Len(entryPop.Individuals) > 0 => ~ErrorsIs(stageErr, "ErrPopulationEmpty")

\* two individuals and two elites: the count equals the size
TooManyElitesRejectedWitness ==
    /\ stage = "Select"
    /\ sp = "ret"
    /\ Len(entryPop.Individuals) = 2
    /\ numElites = 2
    /\ stageErr # Nil

-----------------------------------------------------------------------------
(* Parents Crossover rejects *)

\* C25: when a parent is nil or has no genes, or the parents differ in
\* length, Crossover returns no offspring and a CrossoverError whose chain
\* holds an InvalidChromosomeError
CrossoverRejectsBadParents ==
    (/\ stage = "Crossover"
     /\ sp = "ret"
     /\ \/ opIn.parent1Nil
        \/ opIn.parent2Nil
        \/ Len(opIn.parent1) = 0
        \/ Len(opIn.parent2) = 0
        \/ Len(opIn.parent1) # Len(opIn.parent2)) =>
        /\ stageErr # Nil
        /\ stageErr[1].kind = "CrossoverError"
        /\ ErrorsIs(stageErr, "InvalidChromosomeError")
        /\ opOut.offspring1 = <<>>
        /\ opOut.offspring2 = <<>>

\* parents of two and of three genes rejected
CrossoverRejectsBadParentsWitness ==
    /\ stage = "Crossover"
    /\ sp = "ret"
    /\ Len(opIn.parent1) = 2
    /\ Len(opIn.parent2) = 3
    /\ stageErr # Nil

\* a nil second parent rejected
CrossoverRejectsNilParentWitness ==
    /\ stage = "Crossover"
    /\ sp = "ret"
    /\ Len(opIn.parent1) = 2
    /\ opIn.parent2Nil
    /\ stageErr # Nil

-----------------------------------------------------------------------------
(* Evaluate called on its own *)

RECURSIVE SumOf(_)
SumOf(s) == IF Len(s) = 0 THEN 0 ELSE s[1] + SumOf(Tail(s))

\* C26: under a context that is not cancelled, Evaluate returns for a
\* chromosome with genes their sum and no error, 15 for 1, 2, 3, 4, 5, and
\* for a chromosome of length 0 fitness 0 with a FitnessEvaluationError that
\* wraps an InvalidChromosomeError
EvaluateIsSum ==
    (stage = "Evaluate" /\ sp = "ret" /\ ctxErr = "") =>
        /\ IF Len(opIn.chromosome) = 0
           THEN /\ Len(stageErr) = 2
                /\ stageErr[1].kind = "FitnessEvaluationError"
                /\ stageErr[2].kind = "InvalidChromosomeError"
                /\ opOut.fitness = 0
           ELSE /\ stageErr = Nil
                /\ opOut.fitness = SumOf(opIn.chromosome)
        /\ opIn.chromosome = <<1, 2, 3, 4, 5>> => opOut.fitness = 15

\* the chromosome 1, 2, 3, 4, 5 evaluated to 15
EvaluateIsSumWitness ==
    /\ stage = "Evaluate"
    /\ sp = "ret"
    /\ ctxErr = ""
    /\ opIn.chromosome = <<1, 2, 3, 4, 5>>
    /\ opOut.fitness = 15
    /\ stageErr = Nil

\* the empty chromosome rejected
EvaluateEmptyFailsWitness ==
    /\ stage = "Evaluate"
    /\ sp = "ret"
    /\ ctxErr = ""
    /\ opIn.chromosome = <<>>
    /\ stageErr # Nil

-----------------------------------------------------------------------------
(* The best individual of a population *)

\* C27: on a nil population and on one without individuals BestSolution and
\* BestFitness return ErrPopulationEmpty; otherwise BestSolution returns an
\* individual of the population whose fitness no other exceeds and
\* BestFitness returns that fitness; the population is as it was
BestIsMaximal ==
    (stage = "BestSolution" /\ sp = "ret") =>
        /\ population = entryPop
        /\ IF entryPop.isNil \/ Len(entryPop.Individuals) = 0
           THEN /\ stageErr = ErrPopulationEmpty
                /\ opOut.fitnessErr = ErrPopulationEmpty
           ELSE /\ stageErr = Nil
                /\ opOut.fitnessErr = Nil
                /\ \E i \in DOMAIN entryPop.Individuals : opOut.sol = entryPop.Individuals[i]
                /\ \A j \in DOMAIN entryPop.Individuals :
                      opOut.sol.Fitness >= entryPop.Individuals[j].Fitness
                /\ opOut.fitness = opOut.sol.Fitness

\* the best of three individuals is the last one, above two that tie
BestIsMaximalWitness ==
    /\ stage = "BestSolution"
    /\ sp = "ret"
    /\ Len(entryPop.Individuals) = 3
    /\ entryPop.Individuals[1].Fitness = entryPop.Individuals[2].Fitness
    /\ entryPop.Individuals[2].Fitness < entryPop.Individuals[3].Fitness
    /\ opOut.sol = entryPop.Individuals[3]
    /\ opOut.fitness = entryPop.Individuals[3].Fitness

\* BestSolution on a population without individuals
BestOfEmptyWitness ==
    /\ stage = "BestSolution"
    /\ sp = "ret"
    /\ entryPop = CreateEmptyPopulation
    /\ stageErr = ErrPopulationEmpty

-----------------------------------------------------------------------------
(* Mutation rate 0 *)

\* C28: a mutator of rate 0 never mutates: whatever the gate draws, Mutate
\* on a chromosome of two genes or more returns nil and leaves the
\* chromosome as it was
RateZeroNeverMutates ==
    (/\ stage = "Mutate"
     /\ sp = "ret"
     /\ mutationRate = 0
     /\ Len(opIn.chromosome.genes) >= 2) =>
        /\ stageErr = Nil
        /\ opOut.chromosome = opIn.chromosome

-----------------------------------------------------------------------------
(* The size of the population during Loop *)

\* C29: all through a Loop run the executor's population has as many
\* individuals as at the start, and every population that PerformSelection
\* or PerformCrossover returns without error, which Loop then installs, has
\* as many too
LoopKeepsSize ==
    /\ Len(population.Individuals) = initSize
    /\ (stage \in {"PerformSelection", "PerformCrossover"} /\ sp = "ret" /\ stageErr = Nil) =>
           /\ ~retPop.isNil
           /\ Len(retPop.Individuals) = initSize

\* a run of MaxGenerations generations over three individuals, with an
\* elite, has returned
LoopKeepsSizeWitness ==
    /\ pc = "done"
    /\ generations = MaxGenerations
    /\ generations >= 2
    /\ numElites = 1
    /\ initSize = 3
    /\ Len(loopRet.Individuals) = 3

-----------------------------------------------------------------------------
(* RefreshFitness with one worker *)

\* the units whose Evaluate call went past its cancellation check
Computed == {i \in DOMAIN unit : unit[i].phase = "done" /\ ~IsCancellation(unit[i].err, "Canceled")}

\* C30: with a worker limit of 1 a unit of RefreshFitness starts only when
\* all units of lower index have returned; and when the caller never
\* cancels and the evaluator fails first at individual j, the individuals
\* before j hold the fitness evaluated from their chromosome, the
\* individuals from j on are as they were at entry, the units after j
\* failed with a cancellation error, and the evaluator computed for the
\* individuals up to j and no others
OneWorkerRefreshInOrder ==
    (stage = "RefreshFitness" /\ numWorkers = 1 /\ sp \in {"run", "ret"}) =>
        /\ \A i \in DOMAIN unit :
              unit[i].phase # "idle" => \A h \in 1..(i - 1) : unit[h].phase = "done"
        /\ (sp = "ret" /\ ctxErr = "" /\ failLog # <<>>) =>
              LET j == failLog[1].index
              IN  /\ ~IsCancellation(failLog[1].err, "Canceled")
                  /\ \A i \in DOMAIN unit :
                        /\ i < j =>
                              /\ unit[i].err = Nil
                              /\ population.Individuals[i].Fitness =
                                     Evaluate(entryPop.Individuals[i].Chromosome, "").fitness
                        /\ i >= j => population.Individuals[i] = entryPop.Individuals[i]
                        /\ i > j => IsCancellation(unit[i].err, "Canceled")
                  /\ Computed = 1..j
                  /\ stageErr = RefreshFitnessError(failLog[1].err)

\* three individuals, the evaluator failed at the second: the first has its
\* new fitness, the third kept its old one and its unit saw the cancellation
OneWorkerRefreshInOrderWitness ==
    /\ Returned("RefreshFitness")
    /\ numWorkers = 1
    /\ ctxErr = ""
    /\ Len(entryPop.Individuals) = 3
    /\ failLog # <<>>
    /\ failLog[1].index = 2
    /\ population.Individuals[1].Fitness # entryPop.Individuals[1].Fitness
    /\ population.Individuals[3] = entryPop.Individuals[3]
    /\ Len(entryPop.Individuals[3].Chromosome) > 0
    /\ IsCancellation(unit[3].err, "Canceled")

-----------------------------------------------------------------------------
(* The winner of a tournament *)

\* position j of the draws d holds the winner over the pool: no draw has a
\* greater fitness and every earlier draw has a smaller one
FirstBest(pool, d, j) ==
    \A h \in DOMAIN d :
        /\ pool[d[h]].Fitness <= pool[d[j]].Fitness
        /\ h < j => pool[d[h]].Fitness < pool[d[j]].Fitness

\* the input individuals the tournaments of a returned Select drew from
PoolIndices ==
    IF numElites > 0
    THEN DOMAIN entryPop.Individuals \ {opOut.store[h].genesOf : h \in 1..numElites}
    ELSE DOMAIN entryPop.Individuals

\* C31: the winner of a tournament is the earliest drawn candidate among
\* those of the greatest fitness drawn, and the individual appended is a
\* copy of it; every non-elite individual Select returns is a copy of the
\* individual some tournament of tournamentSize draws from the pool wins
TournamentWinnerIsFirstBest ==
    /\ (stage = "Tournament" /\ sp = "ret") =>
          /\ \E j \in DOMAIN opIn.draws :
                /\ opIn.draws[j] = opOut.winner
                /\ FirstBest(entryPop.Individuals, opIn.draws, j)
          /\ opOut.individual = entryPop.Individuals[opOut.winner]
    /\ SelectReturned =>
          \A i \in (numElites + 1)..Len(retPop.Individuals) :
              /\ retPop.Individuals[i] = entryPop.Individuals[opOut.store[i].genesOf]
              /\ \E d \in [1..tournamentSize -> PoolIndices] :
                    \E j \in DOMAIN d :
                        /\ d[j] = opOut.store[i].genesOf
                        /\ FirstBest(entryPop.Individuals, d, j)

\* three draws: the second and the third are different individuals of the
\* same fitness, above that of the first; the second wins
TournamentWinnerIsFirstBestWitness ==
    /\ stage = "Tournament"
    /\ sp = "ret"
    /\ tournamentSize = 3
    /\ opIn.draws[2] # opIn.draws[3]
    /\ entryPop.Individuals[opIn.draws[1]].Fitness < entryPop.Individuals[opIn.draws[2]].Fitness
    /\ entryPop.Individuals[opIn.draws[2]].Fitness = entryPop.Individuals[opIn.draws[3]].Fitness
    /\ entryPop.Individuals[opIn.draws[2]].Chromosome # entryPop.Individuals[opIn.draws[3]].Chromosome
    /\ opOut.winner = opIn.draws[2]

-----------------------------------------------------------------------------
(* The tournament pool *)

PairwiseDifferent(inds) == \A a, b \in DOMAIN inds : inds[a] = inds[b] => a = b

\* C32: with numElites = k > 0 the pool of a returned Select is the input
\* without the k elites, so no non-elite slot is a copy of an elite's source,
\* and when the input individuals are pairwise different each elite occurs
\* exactly once in the output; with numElites = 0 the pool is the input
ElitesStayOutOfPool ==
    SelectReturned =>
        /\ Cardinality(PoolIndices) = Len(entryPop.Individuals) - numElites
        /\ \A i \in (numElites + 1)..Len(retPop.Individuals) :
              /\ opOut.store[i].genesOf \in PoolIndices
              /\ \A h \in 1..numElites : opOut.store[i].genesOf # opOut.store[h].genesOf
        /\ PairwiseDifferent(entryPop.Individuals) =>
              \A h \in 1..numElites :
                  Cardinality({i \in DOMAIN retPop.Individuals :
                                  retPop.Individuals[i] = retPop.Individuals[h]}) = 1
        /\ numElites = 0 => PoolIndices = DOMAIN entryPop.Individuals

\* one elite out of three different individuals, two of which tie for the
\* best fitness: the other of the two wins both tournaments
ElitesStayOutOfPoolWitness ==
    /\ SelectReturned
    /\ numElites = 1
    /\ Len(entryPop.Individuals) = 3
    /\ PairwiseDifferent(entryPop.Individuals)
    /\ retPop.Individuals[2].Fitness = retPop.Individuals[1].Fitness
    /\ retPop.Individuals[2] = retPop.Individuals[3]

\* without elites the fittest individual wins every tournament
WholePoolWitness ==
    /\ SelectReturned
    /\ numElites = 0
    /\ Len(entryPop.Individuals) = 3
    /\ PairwiseDifferent(entryPop.Individuals)
    /\ \A i \in 1..3 : retPop.Individuals[i] = BestSolution(entryPop).sol

-----------------------------------------------------------------------------
(* The offspring of Crossover *)

\* the chromosome with the genes of a up to position c and those of b after
Spliced(a, b, c) == [i \in 1..Len(a) |-> IF i <= c THEN a[i] ELSE b[i]]

\* C33: for parents of one length n >= 1 Crossover returns no error; for
\* n = 1 the offspring are the parents' genes; for n >= 2 there is a point c
\* in 1..n-1 such that offspring1 is parent1 up to c followed by parent2
\* after c, and offspring2 is parent2 up to c followed by parent1 after c;
\* the call leaves the parents as they were
CrossoverSplicesAtPoint ==
    /\ []((/\ stage = "Crossover"
           /\ sp = "ret"
           /\ Len(opIn.parent1) = Len(opIn.parent2)
           /\ Len(opIn.parent1) >= 1) =>
             /\ stageErr = Nil
             /\ Len(opIn.parent1) = 1 =>
                   /\ opOut.offspring1 = opIn.parent1
                   /\ opOut.offspring2 = opIn.parent2
             /\ Len(opIn.parent1) >= 2 =>
                   \E c \in 1..(Len(opIn.parent1) - 1) :
                       /\ opOut.point = c
                       /\ opOut.offspring1 = Spliced(opIn.parent1, opIn.parent2, c)
                       /\ opOut.offspring2 = Spliced(opIn.parent2, opIn.parent1, c))
    /\ [][stage = "Crossover" => opIn' = opIn]_vars

\* parents 1 1 1 and 2 2 2 crossed after the first gene
CrossoverSplicesAtPointWitness ==
    /\ stage = "Crossover"
    /\ sp = "ret"
    /\ opIn.parent1 = <<1, 1, 1>>
    /\ opIn.parent2 = <<2, 2, 2>>
    /\ opOut.offspring1 = <<1, 2, 2>>
    /\ opOut.offspring2 = <<2, 1, 1>>

\* parents of one gene returned as offspring
CrossoverSingleGeneWitness ==
    /\ stage = "Crossover"
    /\ sp = "ret"
    /\ opIn.parent1 = <<1>>
    /\ opIn.parent2 = <<2>>
    /\ opOut.offspring1 = <<1>>
    /\ opOut.offspring2 = <<2>>
    /\ stageErr = Nil

-----------------------------------------------------------------------------
(* The positions Mutate swaps *)

\* Mutate went through to its swap
MutateSwapped ==
    /\ stage = "Mutate"
    /\ sp = "ret"
    /\ opOut.swapped

\* C34: when Mutate swaps on a chromosome of n >= 2 genes, the two positions
\* are within 0..n-1 and differ from each other, for every pair of raw draws
\* (the first in 0..n-1, the second in 0..n-2); the step past a collision
\* never gives a position of n or more
SwapPositionsDistinctInRange ==
    MutateSwapped =>
        LET n == Len(opIn.chromosome.genes)
        IN  /\ n >= 2
            /\ opOut.first \in 0..(n - 1)
            /\ opOut.second \in 0..(n - 2)
            /\ SecondPosition(opOut.first, opOut.second) \in 0..(n - 1)
            /\ SecondPosition(opOut.first, opOut.second) # opOut.first
            /\ opOut.chromosome.genes =
                   Swap(opIn.chromosome.genes, opOut.first + 1,
                        SecondPosition(opOut.first, opOut.second) + 1)
            /\ opOut.chromosome.genes[opOut.first + 1] =
                   opIn.chromosome.genes[SecondPosition(opOut.first, opOut.second) + 1]
            /\ \A first \in FirstDraws(n) : \A second \in SecondDraws(n) :
                   /\ SecondPosition(first, second) \in 0..(n - 1)
                   /\ SecondPosition(first, second) # first

\* both draws gave the last value they can give, n-2, and the second position
\* moved to n-1
SwapPositionsDistinctInRangeWitness ==
    /\ MutateSwapped
    /\ opIn.chromosome.genes = <<1, 1, 2>>
    /\ opOut.first = 1
    /\ opOut.second = 1
    /\ opOut.chromosome.genes = <<1, 2, 1>>

\* the pairs of raw draws after which Mutate swaps positions i and j of a
\* chromosome of n genes
DrawsGiving(n, i, j) ==
    {d \in FirstDraws(n) \X SecondDraws(n) :
        {d[1], SecondPosition(d[1], d[2])} = {i, j}}

\* C35 as stated: over the n*(n-1) pairs of raw draws every unordered pair of
\* distinct positions is produced by the same number of draws
SwapPositionsUniform ==
    MutateSwapped =>
        LET n == Len(opIn.chromosome.genes)
        IN  \A i, j, k, l \in 0..(n - 1) :
                i # j /\ k # l =>
                    Cardinality(DrawsGiving(n, i, j)) = Cardinality(DrawsGiving(n, k, l))

-----------------------------------------------------------------------------
(* Mutation under a cancelled context *)

\* C37: when PerformMutation is entered with ctx already cancelled, no
\* chromosome of the population is modified at any point of the stage,
\* whatever the mutation rate: each Mutate call on a chromosome of two genes
\* or more returns nil with the chromosome as it was (the gate did not fire)
\* or returns the cancellation error with the chromosome as it was
CancelledMutationKeepsChromosomes ==
    (/\ stage = "PerformMutation"
     /\ sp \in {"run", "ret"}
     /\ entryCtx # ""
     /\ ~PopulationEmpty(entryPop)) =>
        /\ Len(population.Individuals) = Len(entryPop.Individuals)
        /\ \A i \in DOMAIN entryPop.Individuals :
              /\ population.Individuals[i].Chromosome = entryPop.Individuals[i].Chromosome
              /\ (/\ unit[i].phase \in {"returned", "done"}
                  /\ Len(entryPop.Individuals[i].Chromosome) >= 2) =>
                     \/ unit[i].err = Nil
                     \/ IsCancellation(unit[i].err, entryCtx)

\* under a cancelled ctx and the highest rate the stage returned; a chromosome
\* 1 2, whose swap would show, is as it was and its call was cancelled
CancelledMutationKeepsChromosomesWitness ==
    /\ Returned("PerformMutation")
    /\ entryCtx = "Canceled"
    /\ mutationRate = RateScale
    /\ \E i \in DOMAIN unit :
          /\ population.Individuals[i].Chromosome = <<1, 2>>
          /\ IsCancellation(unit[i].err, entryCtx)

\* under a cancelled ctx and rate 0 a call drew above the rate and returned nil
CancelledMutationGateClosedWitness ==
    /\ Returned("PerformMutation")
    /\ entryCtx # ""
    /\ mutationRate = 0
    /\ \E i \in DOMAIN unit :
          /\ population.Individuals[i].Chromosome = <<1, 2>>
          /\ unit[i].err = Nil

-----------------------------------------------------------------------------
(* Termination of the concurrent stages *)

\* C38 as stated: for every worker count the constructor stores,
\* RefreshFitness and PerformMutation entered on a non-empty population
\* eventually return when the control thread and the units keep running
StagesReturn ==
    (/\ stage \in {"RefreshFitness", "PerformMutation"}
     /\ sp = "entry"
     /\ ~PopulationEmpty(population)) ~> (sp = "ret")

-----------------------------------------------------------------------------
(* Storage of the crossover offspring *)

CrossoverReturned ==
    /\ Returned("PerformCrossover")
    /\ stageErr = Nil

\* C40 as stated: no individual PerformCrossover returns holds its
\* chromosome in the backing array of an individual of the population that
\* entered, whether the size of the population is even or odd
OffspringStorageIndependent ==
    CrossoverReturned =>
        /\ DOMAIN opOut.store = DOMAIN retPop.Individuals
        /\ \A i \in DOMAIN opOut.store :
              \A j \in DOMAIN population.Individuals : opOut.store[i] # InputStorage(j)

-----------------------------------------------------------------------------
(* Conservation of genes within a generation *)

\* the population in hand between the entry of PerformCrossover and the
\* return of PerformMutation: what PerformCrossover returned from the moment
\* it returned without error, e.population otherwise
InHand ==
    IF stage = "PerformCrossover" /\ sp = "ret" /\ stageErr = Nil THEN retPop ELSE population

\* how often gene g occurs in the chromosomes of a sequence of individuals
RECURSIVE GeneCount(_, _)
GeneCount(inds, g) ==
    IF Len(inds) = 0 THEN 0
    ELSE Count(inds[1].Chromosome, g) + GeneCount(Tail(inds), g)

\* the sum of all genes of a sequence of individuals
RECURSIVE GeneSum(_)
GeneSum(inds) ==
    IF Len(inds) = 0 THEN 0
    ELSE SumOf(inds[1].Chromosome) + GeneSum(Tail(inds))

\* C36: within a generation of Loop no step from the entry of
\* PerformCrossover to the return of PerformMutation changes the number of
\* individuals, the multiset of all genes of the population or their sum, so
\* the population after mutation has the genes of the population that
\* entered crossover, for even and odd sizes
GenerationConservesGenes ==
    [][(pc \in {"crossover", "mutate"} /\ pc' \in {"crossover", "mutate"}) =>
          /\ Len(InHand'.Individuals) = Len(InHand.Individuals)
          /\ \A g \in 1..MaxGene :
                GeneCount(InHand'.Individuals, g) = GeneCount(InHand.Individuals, g)
          /\ GeneSum(InHand'.Individuals) = GeneSum(InHand.Individuals)]_vars

\* a generation over three individuals: crossover was called on a pair, the
\* mutation stage returned without error and exchanged two different genes
GenerationConservesGenesWitness ==
    /\ pc = "mutate"
    /\ Returned("PerformMutation")
    /\ stageErr = Nil
    /\ Len(population.Individuals) = 3
    /\ calls.crossover >= 1
    /\ \E i \in DOMAIN population.Individuals :
          population.Individuals[i].Chromosome # entryPop.Individuals[i].Chromosome

\* the same over two individuals
GenerationConservesGenesEvenWitness ==
    /\ pc = "mutate"
    /\ Returned("PerformMutation")
    /\ stageErr = Nil
    /\ Len(population.Individuals) = 2
    /\ calls.crossover >= 1
    /\ \E i \in DOMAIN population.Individuals :
          population.Individuals[i].Chromosome # entryPop.Individuals[i].Chromosome

-----------------------------------------------------------------------------
(* Elites across a generation *)

\* Loop has evaluated the population again after a generation with elites
EvaluatedAgain ==
    /\ pc \in {"refresh", "final"}
    /\ Returned("RefreshFitness")
    /\ stageErr = Nil
    /\ numElites >= 1
    /\ lastBest # {}

\* C39 as stated: in Loop with numElites >= 1, the chromosome of an
\* individual of highest fitness of one evaluation is present in the
\* population of the next evaluation (of generation g+1 or the final one),
\* and the best fitness of that population is not lower
EliteSurvivesGeneration ==
    EvaluatedAgain =>
        /\ \E b \in lastBest : \E i \in DOMAIN population.Individuals :
              population.Individuals[i].Chromosome = b.Chromosome
        /\ \A b \in lastBest : BestFitness(population).fitness >= b.Fitness

=============================================================================
